---- MODULE Spec2Model ----
(***************************************************************************)
(* Model of the supervisor entry point of the multi-agent customer support *)
(* platform: send_message (src/agent.py:532-767) and                       *)
(* SupervisorAgent.process_request (src/agent.py:202-525), served by the    *)
(* singleton built by SupervisorAgent.__init__ (src/agent.py:58-150), and   *)
(* of the collaborators the platform runs beside it:                       *)
(* S3VectorManager.create_vector_bucket (src/shared/utils/                 *)
(* s3_vector_manager.py:60-113).                                           *)
(*                                                                         *)
(* Python values are modelled as follows.                                  *)
(*   - None / a missing key is the string NONE; a Python string is a TLA+  *)
(*     string, so Truthy(v) is "v is neither None nor the empty string".   *)
(*   - A request and a context are records whose fields are the keys the   *)
(*     code reads; a key the caller did not send holds NONE (FALSE for a   *)
(*     flag, <<>> for a list).                                             *)
(*   - A response is a function from the keys present to their values, so  *)
(*     that "the envelope has no message field" is a statement about its   *)
(*     DOMAIN.                                                             *)
(*   - A tool name or a message text is a sequence of tokens; the          *)
(*     substring tests of the code ('a2a' in name.lower()) become tests    *)
(*     on the lower-cased tokens.                                          *)
(***************************************************************************)
EXTENDS Integers, Sequences, FiniteSets, TLC

VARIABLES
    pc,            \* pc[p]: position of request slot p in send_message / process_request
    request,       \* request[p]: the raw request object handed to send_message
    frame,         \* frame[p]: locals of send_message
    work,          \* work[p]: locals of process_request
    response,      \* response[p]: the value being returned (a dict: key -> value)
    extcalls,      \* extcalls[p]: external calls made for this request, in order
    conversation,  \* supervisor.agent.conversation: log kept by the singleton agent
    agentKeepsLog, \* whether the agent object has a `conversation` attribute
    running,       \* slot whose coroutine is executing (NoSlot: event loop is free)
    supervisor,    \* construction of the singleton SupervisorAgent and its tool set
    vectorBucket,  \* one call of S3VectorManager.create_vector_bucket
    knowledgeBase, \* the vector index and the last call of a knowledge lambda handler
    tickets        \* the tickets table and the last call of a ticket operation

\* the state of the supervisor process
routerVars ==
    <<pc, request, frame, work, response, extcalls, conversation, agentKeepsLog, running,
      supervisor>>

\* the state of the collaborators that run outside the supervisor process
libVars == <<vectorBucket, knowledgeBase, tickets>>

vars == <<routerVars, libVars>>

-----------------------------------------------------------------------------
(* Bounds of the model *)

MaxLog == 2       \* messages the model lets the agent's conversation log hold
MaxCalls == 3     \* call records one decision-step result carries
MaxHistory == 7   \* entries of a caller-supplied turn history
MaxAttempts == 4  \* calls of the vector store client followed in one create_vector_bucket
MaxNameChars == 3 \* characters of a bucket name
MaxBatch == 2     \* articles of a batch, but for the one batch over the limit
MaxTickets == 2   \* tickets created by create_ticket

\* Concurrent invocations of the entry point (coroutines on one event loop).
Slots == {"r1", "r2"}
SerialSlots == {"r1"}
NoSlot == "none"

-----------------------------------------------------------------------------
(* Python values *)

NONE == "NONE"

Truthy(v) == v # NONE /\ v # ""

\* Python `a or b`
Or(a, b) == IF Truthy(a) THEN a ELSE b

Has(d, k) == k \in DOMAIN d

\* dict.get(k) on a response dict
Get(d, k) == IF k \in DOMAIN d THEN d[k] ELSE NONE

\* d[k] = v on a dict
Put(d, k, v) == [x \in (DOMAIN d) \cup {k} |-> IF x = k THEN v ELSE d[x]]

EmptyDict == [x \in {} |-> NONE]

\* dict.get(k, default) for a key the caller may have left out
Default(v, d) == IF v = NONE THEN d ELSE v

RECURSIVE SeqsUpTo(_, _)
\* all sequences over S of length 0..n
SeqsUpTo(S, n) ==
    IF n = 0 THEN {<<>>}
    ELSE LET shorter == SeqsUpTo(S, n - 1)
         IN  shorter \cup {Append(q, x) : q \in {t \in shorter : Len(t) = n - 1}, x \in S}

-----------------------------------------------------------------------------
(* Program constants: src/agent.py *)

InvalidRequestError == "Invalid request format. Request must be a dictionary."
MissingQuestionError ==
    "No question provided. Request must contain 'input', 'prompt', or 'question' field."
FailedToProcessError == "Failed to process request: <exception>"

ANONYMOUS == "anonymous"
SUPERVISOR == "SupervisorAgent"
BEDROCK_MODEL_ID == "anthropic.claude-3-haiku-20240307-v1:0"
MEMORY_ID == "customer_support_supervisor_mem-SalHj92SVh"
NOW == "datetime.now().isoformat()"

SessionNoteManaged ==
    "Session managed by AgentCore Runtime. Use same session ID for follow-up interactions."
SessionNoteLimitation ==
    "AgentCore Runtime auto-generated a session ID internally, but it's not accessible in the entrypoint."

\* agent_url_to_name
AgentUrls == {"http://127.0.0.1:9001", "http://127.0.0.1:9002", "http://127.0.0.1:9003",
              "http://127.0.0.1:9005", "http://127.0.0.1:9006"}

AgentUrlToName(url) ==
    CASE url = "http://127.0.0.1:9001" -> "SentimentAgent"
      [] url = "http://127.0.0.1:9002" -> "KnowledgeAgent"
      [] url = "http://127.0.0.1:9003" -> "TicketAgent"
      [] url = "http://127.0.0.1:9005" -> "ResolutionAgent"
      [] url = "http://127.0.0.1:9006" -> "EscalationAgent"
      [] OTHER -> NONE

\* agent_keywords, in the dict's insertion order
AgentKeywords ==
    << <<"knowledgeagent", "KnowledgeAgent">>, <<"sentimentagent", "SentimentAgent">>,
       <<"ticketagent", "TicketAgent">>, <<"resolutionagent", "ResolutionAgent">>,
       <<"escalationagent", "EscalationAgent">> >>

\* mutant: a session id is generated when the caller sent none
GeneratedSessionId == "generated-session-id"

\* The session id the runtime app object exposes to the entry point: the probes
\* app.get_runtime_session_id / app.runtime_session_id / request.runtimeSessionId.
\* The source states that the auto-generated id "is NOT accessible in the entrypoint
\* function", and `request` is a dict when the probe runs, so every probe misses.
AppRuntimeSessionId == NONE

-----------------------------------------------------------------------------
(* send_message: request normalisation and identity / session resolution *)

\* request.get("context", {}) or {} when the caller sent no context
EmptyContext ==
    [kind |-> "mapping", user_id |-> NONE, runtimeSessionId |-> NONE,
     runtime_session_id |-> NONE, session_id |-> NONE, username |-> NONE,
     customer_tier |-> NONE, department |-> NONE, permissions |-> <<>>,
     authenticated |-> FALSE, conversation_history |-> <<>>]

\* A request object. shape: "dict" (a mapping), "attrs" (an object with __dict__),
\* "dictmethod" (an object with a dict() method returning a mapping), "badmethod"
\* (an object whose dict() returns no mapping), "bare" (a string, number or list).
\* The other fields are the keys (attributes) of the mapping (object).
NoRequest ==
    [shape |-> "bare", input |-> NONE, prompt |-> NONE, question |-> NONE,
     user_id |-> NONE, session_id |-> NONE, include_details |-> FALSE,
     context |-> [EmptyContext EXCEPT !.kind = "absent"]]

\* the object-to-dict conversion of the entry point
ConvertRequest(req) ==
    IF req.shape = "dict" THEN req
    ELSE IF req.shape \in {"attrs", "dictmethod"} THEN [req EXCEPT !.shape = "dict"]
    ELSE [req EXCEPT !.shape = "bare"]

\* mutant: the isinstance gate is missing
IsDictAlways(req) == TRUE

\* isinstance(request, dict)
IsDict(req) == req.shape = "dict"

\* mutant: the aliases are tried in the opposite order
ExtractQuestionReversed(req) == Or(Or(req.question, req.prompt), req.input)

\* question = request.get("input") or request.get("prompt") or request.get("question")
ExtractQuestion(req) == Or(Or(req.input, req.prompt), req.question)

\* mutant: only a missing question is rejected, an empty one passes
HasQuestionNotNone(question) == question # NONE

\* `if not question:` is not taken
HasQuestion(question) == Truthy(question)

\* context = request.get("context", {}) or {}
ExtractContext(req) ==
    IF req.context.kind = "absent" THEN EmptyContext ELSE req.context

\* a context on which .get() raises AttributeError (a truthy non-mapping)
ContextRaises(context) == context.kind # "mapping"

\* mutant: the context keys are tried before the top-level session_id
ResolveSessionContextFirst(req, context) ==
    Or(Or(context.runtimeSessionId, context.runtime_session_id), req.session_id)

\* runtime_session_id = request.get("session_id") or context.get("runtimeSessionId")
\*                      or context.get("runtime_session_id")
ResolveSession(req, context) ==
    Or(Or(req.session_id, context.runtimeSessionId), context.runtime_session_id)

\* mutant: the top-level user_id is tried before context.user_id
ResolveUserIdTopFirst(req, context) == Or(Or(req.user_id, context.user_id), ANONYMOUS)

\* user_id_for_ltm = context.get("user_id") or request.get("user_id") or "anonymous"
ResolveUserId(req, context) == Or(Or(context.user_id, req.user_id), ANONYMOUS)

\* user_context of send_message
UserContext(context, user_id_for_ltm, runtime_session_id) ==
    [user_id |-> user_id_for_ltm,
     username |-> context.username,
     customer_tier |-> Default(context.customer_tier, "standard"),
     department |-> Default(context.department, "general"),
     permissions |-> context.permissions,
     authenticated |-> context.authenticated,
     runtime_session_id |-> runtime_session_id]

\* enhanced_context = {**context, **user_context, "memory_enabled": True,
\*                     "conversation_context": ..., "session_id": runtime_session_id}
EnhancedContext(context, user_context, runtime_session_id) ==
    [kind |-> "mapping",
     runtimeSessionId |-> context.runtimeSessionId,
     conversation_history |-> context.conversation_history,
     user_id |-> user_context.user_id,
     username |-> user_context.username,
     customer_tier |-> user_context.customer_tier,
     department |-> user_context.department,
     permissions |-> user_context.permissions,
     authenticated |-> user_context.authenticated,
     runtime_session_id |-> user_context.runtime_session_id,
     memory_enabled |-> TRUE,
     conversation_context |-> context.conversation_history,
     session_id |-> runtime_session_id]

NoUserContext == UserContext(EmptyContext, NONE, NONE)
NoEnhancedContext == EnhancedContext(EmptyContext, NoUserContext, NONE)

\* return {"error": "Invalid request format. Request must be a dictionary."}
InvalidRequestEnvelope == ("error" :> InvalidRequestError)

\* return {"error": "No question provided. ..."}
MissingQuestionEnvelope == ("error" :> MissingQuestionError)

\* except Exception as e: return {"error": ..., "status": "error"}
EntryExceptionEnvelope == ("error" :> FailedToProcessError) @@ ("status" :> "error")

-----------------------------------------------------------------------------
(* process_request: memory assembly and prompt *)

HISTORY_WINDOW == 6    \* conversation_history[-6:]
LTM_TURNS_K == 5       \* get_last_k_turns(k=5)
SEMANTIC_TOP_K == 3    \* retrieve_memories(top_k=3)
LOG_LOOKBACK == 5      \* list(self.agent.conversation)[-5:]

\* mutant: the window is taken from the front, seq[:n]
FirstN(seq, n) ==
    IF Len(seq) <= n THEN seq ELSE SubSeq(seq, 1, n)

\* seq[-n:]
LastN(seq, n) ==
    IF Len(seq) <= n THEN seq ELSE SubSeq(seq, Len(seq) - n + 1, Len(seq))

\* str.upper() on a role
Upper(role) ==
    CASE role = "user" -> "USER"
      [] role = "assistant" -> "ASSISTANT"
      [] role = NONE -> "UNKNOWN"
      [] OTHER -> role

RECURSIVE Flatten(_)
\* the messages of a list of turns, in order (for turn in turns: for message in turn)
Flatten(turns) ==
    IF turns = <<>> THEN <<>> ELSE Head(turns) \o Flatten(Tail(turns))

RECURSIVE NonEmptyText(_)
\* the entries whose text is non-empty (`if content:`), in order
NonEmptyText(msgs) ==
    IF msgs = <<>> THEN <<>>
    ELSE IF Truthy(Head(msgs).content)
         THEN <<Head(msgs)>> \o NonEmptyText(Tail(msgs))
         ELSE NonEmptyText(Tail(msgs))

\* f"{role.upper()}: {content}\n" for each message
RoleLines(msgs) ==
    [i \in DOMAIN msgs |-> [role |-> Upper(msgs[i].role), content |-> msgs[i].content]]

\* the PREVIOUS CONVERSATION block
HistoryBlock(conversation_history) ==
    [label |-> "PREVIOUS CONVERSATION (YOU MUST USE THIS FOR MEMORY QUESTIONS)",
     lines |-> RoleLines(LastN(conversation_history, HISTORY_WINDOW)),
     user_id |-> NONE]

\* the LONG-TERM MEMORY (FROM PREVIOUS SESSIONS) block
LtmTurnsBlock(recent_turns) ==
    [label |-> "LONG-TERM MEMORY (FROM PREVIOUS SESSIONS)",
     lines |-> RoleLines(NonEmptyText(Flatten(recent_turns))),
     user_id |-> NONE]

\* the LONG-TERM MEMORY (USER PREFERENCES/FACTS) block
SemanticBlock(memories) ==
    [label |-> "LONG-TERM MEMORY (USER PREFERENCES/FACTS)",
     lines |-> [i \in DOMAIN NonEmptyText(memories) |->
                   [role |-> NONE, content |-> NonEmptyText(memories)[i].content]],
     user_id |-> NONE]

\* the notice written when replay found no turns
NoLtmNotice(user_id_for_ltm) ==
    [label |-> "NO CONVERSATION HISTORY IN THIS SESSION",
     lines |-> << [role |-> NONE,
                   content |-> "NEW session, but no Long-Term Memory (LTM) found from previous sessions"] >>,
     user_id |-> user_id_for_ltm]

NoBlock == [label |-> NONE, lines |-> <<>>, user_id |-> NONE]

\* mutant: the except branch leaves history_text as it was initialised
FailedLtmNoticeMissing(user_id_for_ltm) == NoBlock

\* the notice written by `except Exception as e` of the long-term lookup
FailedLtmNotice(user_id_for_ltm) ==
    [label |-> "NO CONVERSATION HISTORY IN THIS SESSION",
     lines |-> << [role |-> NONE, content |-> "NEW session"] >>,
     user_id |-> user_id_for_ltm]

\* the notice for an anonymous caller without history
FirstMessageNotice ==
    [label |-> "NO PREVIOUS CONVERSATION",
     lines |-> << [role |-> NONE, content |-> "This is the first message in the session."] >>,
     user_id |-> NONE]

\* mutant: the lookup is attempted for every non-empty user id
UsesLtmAnyIdentity(conversation_history, user_id_for_ltm) ==
    /\ conversation_history = <<>>
    /\ Truthy(user_id_for_ltm)

\* whether the long-term lookup is attempted:
\* not conversation_history and user_id_for_ltm and user_id_for_ltm != "anonymous"
UsesLtm(conversation_history, user_id_for_ltm) ==
    /\ conversation_history = <<>>
    /\ Truthy(user_id_for_ltm)
    /\ user_id_for_ltm # ANONYMOUS

\* ltm_note: the user id the reminder names, NONE when there is no reminder
LtmNote(user_id_for_ltm) ==
    IF Truthy(user_id_for_ltm) /\ user_id_for_ltm # ANONYMOUS
    THEN user_id_for_ltm ELSE NONE

\* str.title() on a department
Title(department) ==
    CASE department = "general" -> "General"
      [] department = "billing" -> "Billing"
      [] OTHER -> department

\* user_info, the prompt handed to the decision step
UserInfo(context, history_text, question) ==
    [username |-> context.username,
     department |-> Title(context.department),
     permissions |-> IF context.permissions = <<>> THEN <<"Basic">> ELSE context.permissions,
     authenticated |-> context.authenticated,
     user_id |-> context.user_id,
     ltm_note |-> LtmNote(context.user_id),
     history_text |-> history_text,
     session_id |-> context.session_id,
     question |-> question]

NoPrompt == UserInfo(NoEnhancedContext, NoBlock, NONE)

\* the calls to the Memory Store, as recorded in extcalls; outcome is "ok" or "raised"
MemoryClientCall(outcome) ==
    [op |-> "MemoryClient", actor |-> NONE, session |-> NONE, arg |-> NONE, k |-> 0,
     outcome |-> outcome]

\* mutant: the session key is passed as it is, without falling back to the user id
GetLastKTurnsCallNoFallback(context, outcome) ==
    [op |-> "get_last_k_turns",
     outcome |-> outcome,
     actor |-> context.user_id,
     session |-> Or(context.runtime_session_id, context.session_id),
     arg |-> MEMORY_ID,
     k |-> LTM_TURNS_K]

\* get_last_k_turns(memory_id, actor_id=user_id, session_id=runtime_session_id or user_id, k=5)
GetLastKTurnsCall(context, outcome) ==
    [op |-> "get_last_k_turns",
     outcome |-> outcome,
     actor |-> context.user_id,
     session |-> Or(Or(context.runtime_session_id, context.session_id), context.user_id),
     arg |-> MEMORY_ID,
     k |-> LTM_TURNS_K]

\* retrieve_memories(memory_id, namespace=support/user/<user_id>/preferences, query, top_k=3)
RetrieveMemoriesCall(context, question, outcome) ==
    [op |-> "retrieve_memories",
     outcome |-> outcome,
     actor |-> context.user_id,
     session |-> NONE,
     arg |-> question,
     k |-> SEMANTIC_TOP_K]

\* self.agent.invoke_async(user_info)
InvokeCall(user_info) == [op |-> "invoke_async", prompt |-> user_info]

-----------------------------------------------------------------------------
(* process_request: trace reconstruction *)

\* str.lower() on one token of a tool name or of a message
LowerTok(t) ==
    CASE t = "A2A" -> "a2a"
      [] t = "Target" -> "target"
      [] t = "KnowledgeAgent" -> "knowledgeagent"
      [] t = "SentimentAgent" -> "sentimentagent"
      [] t = "TicketAgent" -> "ticketagent"
      [] t = "ResolutionAgent" -> "resolutionagent"
      [] t = "EscalationAgent" -> "escalationagent"
      [] OTHER -> t

\* `word in text.lower()`
InLower(word, text) == \E i \in DOMAIN text : LowerTok(text[i]) = word

\* `word in text`
InText(word, text) == \E i \in DOMAIN text : text[i] = word

\* A call record. form: "dict" (a dict with name and arguments), "function" (a dict
\* with a nested function dict), "object" (an object with a name attribute),
\* "badfunction" (a dict without name whose function is not a mapping).
\* args: "dict" (a mapping), "json" (a string holding a JSON object), "badjson"
\* (a string json.loads rejects).
CallRecord(form, name, args, target_agent_url, url) ==
    [form |-> form, name |-> name, args |-> args,
     target_agent_url |-> target_agent_url, url |-> url]

\* reading name / arguments of the record raises (AttributeError on a non-mapping)
ReadRaises(tool_call) == tool_call.form = "badfunction"

\* tool_name as read from the record
ToolName(tool_call) == tool_call.name

\* 'a2a' in name.lower() or 'send_message' in name.lower() or 'discover_agent' in name.lower()
IsAgentRouting(tool_name) ==
    \/ InLower("a2a", tool_name)
    \/ InLower("send_message", tool_name)
    \/ InLower("discover_agent", tool_name)

\* 'target' in tool_name.lower() and '___' in tool_name
IsMcpTool(tool_name) == InLower("target", tool_name) /\ InText("___", tool_name)

\* tool_args.get(...) raises: the arguments are a string json.loads could not parse
ArgsRaise(tool_call) == tool_call.args = "badjson"

\* agent_url = tool_args.get('target_agent_url') or tool_args.get('url', '')
AgentUrl(tool_call) == Or(tool_call.target_agent_url, Default(tool_call.url, ""))

AgentEntry(agent_name, agent_url) ==
    [type |-> "agent", name |-> agent_name, action |-> "routed_to", url |-> agent_url]

ToolEntry(tool_name) ==
    [type |-> "tool", tool |-> tool_name, action |-> "called_mcp_tool"]

DetectedEntry(agent_name) ==
    [type |-> "agent", name |-> agent_name, action |-> "detected_in_response",
     method |-> "message_parsing"]

InSeq(x, seq) == \E i \in DOMAIN seq : seq[i] = x

EmptyTrace ==
    [specialized_agents |-> <<>>, mcp_tools_used |-> <<>>, response_trace |-> <<>>,
     raised |-> FALSE]

\* mutant: an agent is recorded again each time it is routed to
ProcessToolCallNoDedup(acc, tool_call) ==
    IF acc.raised THEN acc
    ELSE IF ReadRaises(tool_call) THEN [acc EXCEPT !.raised = TRUE]
    ELSE IF IsAgentRouting(ToolName(tool_call))
    THEN IF ArgsRaise(tool_call) THEN [acc EXCEPT !.raised = TRUE]
         ELSE LET agent_url == AgentUrl(tool_call)
                  agent_name == AgentUrlToName(agent_url)
              IN  IF Truthy(agent_url) /\ Truthy(agent_name)
                  THEN [acc EXCEPT
                          !.specialized_agents = Append(@, agent_name),
                          !.response_trace = Append(@, AgentEntry(agent_name, agent_url))]
                  ELSE acc
    ELSE IF IsMcpTool(ToolName(tool_call))
    THEN IF ~InSeq(ToolName(tool_call), acc.mcp_tools_used)
         THEN [acc EXCEPT
                 !.mcp_tools_used = Append(@, ToolName(tool_call)),
                 !.response_trace = Append(@, ToolEntry(ToolName(tool_call)))]
         ELSE acc
    ELSE acc

\* one iteration of `for tool_call in tool_calls`
ProcessToolCall(acc, tool_call) ==
    IF acc.raised THEN acc
    ELSE IF ReadRaises(tool_call) THEN [acc EXCEPT !.raised = TRUE]
    ELSE IF IsAgentRouting(ToolName(tool_call))
    THEN IF ArgsRaise(tool_call) THEN [acc EXCEPT !.raised = TRUE]
         ELSE LET agent_url == AgentUrl(tool_call)
                  agent_name == AgentUrlToName(agent_url)
              IN  IF Truthy(agent_url) /\ Truthy(agent_name)
                     /\ ~InSeq(agent_name, acc.specialized_agents)
                  THEN [acc EXCEPT
                          !.specialized_agents = Append(@, agent_name),
                          !.response_trace = Append(@, AgentEntry(agent_name, agent_url))]
                  ELSE acc
    ELSE IF IsMcpTool(ToolName(tool_call))
    THEN IF ~InSeq(ToolName(tool_call), acc.mcp_tools_used)
         THEN [acc EXCEPT
                 !.mcp_tools_used = Append(@, ToolName(tool_call)),
                 !.response_trace = Append(@, ToolEntry(ToolName(tool_call)))]
         ELSE acc
    ELSE acc

RECURSIVE ProcessToolCalls(_, _)
\* the loop over tool_calls
ProcessToolCalls(acc, tool_calls) ==
    IF tool_calls = <<>> THEN acc
    ELSE ProcessToolCalls(ProcessToolCall(acc, Head(tool_calls)), Tail(tool_calls))

\* A decision-step result. kind says where the result exposes its call list:
\* "tool_calls" (attribute tool_calls), "message_dict" (message is a dict with
\* tool_calls), "message_list" (message is a list whose items hold tool_calls),
\* "message" (a message without call list), "content" (only a content attribute).
\* calls: the calls the decision step made; text: the final answer.
ResultExposesCalls(result) == result.kind \in {"tool_calls", "message_dict", "message_list"}

\* stage 1: the call list found on the result object
ResultToolCalls(result) == IF ResultExposesCalls(result) THEN result.calls ELSE <<>>

\* stage 2: the call lists of the last messages of the agent's conversation log
LogToolCalls(has_conversation, log) ==
    IF has_conversation /\ log # <<>>
    THEN Flatten([i \in DOMAIN LastN(log, LOG_LOOKBACK) |-> LastN(log, LOG_LOOKBACK)[i].tool_calls])
    ELSE <<>>

\* tool_calls after both stages
DiscoveredToolCalls(result, has_conversation, log) ==
    ResultToolCalls(result) \o LogToolCalls(has_conversation, log)

\* message_content
MessageContent(result) == result.text

RECURSIVE ScanKeywordsTraceOnly(_, _, _)
\* mutant: a detected agent gets its trace entry but is not added to specialized_agents
ScanKeywordsTraceOnly(acc, keywords, message_content) ==
    IF keywords = <<>> THEN acc
    ELSE LET keyword == Head(keywords)[1]
             agent_name == Head(keywords)[2]
             next == IF InLower(keyword, message_content)
                        /\ ~InSeq(agent_name, acc.specialized_agents)
                     THEN [acc EXCEPT
                             !.response_trace = Append(@, DetectedEntry(agent_name))]
                     ELSE acc
         IN  ScanKeywordsTraceOnly(next, Tail(keywords), message_content)

RECURSIVE ScanKeywords(_, _, _)
\* for keyword, agent_name in agent_keywords.items(): ...
ScanKeywords(acc, keywords, message_content) ==
    IF keywords = <<>> THEN acc
    ELSE LET keyword == Head(keywords)[1]
             agent_name == Head(keywords)[2]
             next == IF InLower(keyword, message_content)
                        /\ ~InSeq(agent_name, acc.specialized_agents)
                     THEN [acc EXCEPT
                             !.specialized_agents = Append(@, agent_name),
                             !.response_trace = Append(@, DetectedEntry(agent_name))]
                     ELSE acc
         IN  ScanKeywords(next, Tail(keywords), message_content)

\* the fallback: `if not specialized_agents:` scan the message for agent names
LexicalFallback(acc, message_content) ==
    IF acc.raised \/ acc.specialized_agents # <<>> THEN acc
    ELSE ScanKeywords(acc, AgentKeywords, message_content)

\* specialized_agents, mcp_tools_used and response_trace of one request
ReconstructTrace(result, has_conversation, log) ==
    LexicalFallback(
        ProcessToolCalls(EmptyTrace, DiscoveredToolCalls(result, has_conversation, log)),
        MessageContent(result))

\* mutant: a tool entry is projected by its name, which it lacks, and gets an empty one
ProjectTraceItemByName(trace_item) ==
    IF trace_item.type = "agent"
    THEN [tool_calls |-> << [name |-> "a2a_send_message",
                             arguments |-> [target_agent_url |->
                                                IF "url" \in DOMAIN trace_item
                                                THEN trace_item.url ELSE "",
                                            agent_name |-> trace_item.name]] >>,
          timestamp |-> NOW]
    ELSE [tool_calls |-> << [name |-> <<>>, function |-> ""] >>,
          timestamp |-> NOW]

\* one element of conversation_context for a trace item
ProjectTraceItem(trace_item) ==
    IF trace_item.type = "agent"
    THEN [tool_calls |-> << [name |-> "a2a_send_message",
                             arguments |-> [target_agent_url |->
                                                IF "url" \in DOMAIN trace_item
                                                THEN trace_item.url ELSE "",
                                            agent_name |-> trace_item.name]] >>,
          timestamp |-> NOW]
    ELSE [tool_calls |-> << [name |-> trace_item.tool, function |-> ""] >>,
          timestamp |-> NOW]

\* conversation_context, the projection of response_trace for the UI
ConversationContext(response_trace) ==
    [i \in DOMAIN response_trace |-> ProjectTraceItem(response_trace[i])]

\* response_dict of a processed request
ProcessedResponse(result, trace, context) ==
    [x \in {"message", "status", "timestamp", "agent", "model", "context",
            "authenticated", "specialized_agents", "mcp_tools_used", "response_trace"} |->
        CASE x = "message" -> MessageContent(result)
          [] x = "status" -> "processed"
          [] x = "timestamp" -> NOW
          [] x = "agent" -> SUPERVISOR
          [] x = "model" -> BEDROCK_MODEL_ID
          [] x = "context" -> context
          [] x = "authenticated" -> context.authenticated
          [] x = "specialized_agents" -> trace.specialized_agents
          [] x = "mcp_tools_used" -> trace.mcp_tools_used
          [] x = "response_trace" -> trace.response_trace]

\* the envelope returned by `except Exception as e` of process_request
ProcessErrorEnvelope(context) ==
    [x \in {"error", "status", "timestamp", "agent", "authenticated", "context"} |->
        CASE x = "error" -> FailedToProcessError
          [] x = "status" -> "error"
          [] x = "timestamp" -> NOW
          [] x = "agent" -> SUPERVISOR
          [] x = "authenticated" -> context.authenticated
          [] x = "context" -> context]

-----------------------------------------------------------------------------
(* send_message: the tail of the entry point *)

\* response["processing_steps"]
ProcessingSteps ==
    [i \in 1..6 |->
        [step |-> <<"Authentication Verification", "Memory Context Loading",
                    "Request Classification", "Permission Check",
                    "Response Generation", "Memory Storage">>[i],
         status |-> "completed"]]

\* mutant: the details are added whenever they are asked for
AddDetailsUnauthenticated(resp, include_details, user_context) ==
    IF include_details
    THEN Put(Put(resp, "auth_info",
                 [department |-> user_context.department,
                  permissions |-> user_context.permissions,
                  username |-> user_context.username]),
             "processing_steps", ProcessingSteps)
    ELSE resp

\* if include_details and user_context.get("authenticated"): add auth_info and steps
AddDetails(resp, include_details, user_context) ==
    IF include_details /\ user_context.authenticated
    THEN Put(Put(resp, "auth_info",
                 [department |-> user_context.department,
                  permissions |-> user_context.permissions,
                  username |-> user_context.username]),
             "processing_steps", ProcessingSteps)
    ELSE resp

\* response["memory_info"]
AddMemoryInfo(resp, enhanced_context, user_context) ==
    Put(resp, "memory_info",
        [memory_enabled |-> TRUE,
         conversation_length |-> Len(enhanced_context.conversation_context),
         user_context_stored |-> user_context.authenticated])

\* if not runtime_session_id: try the app object
ProbeSession(runtime_session_id) ==
    IF Truthy(runtime_session_id) THEN runtime_session_id ELSE AppRuntimeSessionId

\* response["session_info"]
AddSessionInfo(resp, runtime_session_id) ==
    IF Truthy(runtime_session_id)
    THEN Put(resp, "session_info",
             [runtime_session_id |-> runtime_session_id, note |-> SessionNoteManaged])
    ELSE Put(resp, "session_info",
             [runtime_session_id |-> NONE, note |-> SessionNoteLimitation])

\* if runtime_session_id: response["session_id"] = ...; response["context"][...] = ...
AddSessionId(resp, runtime_session_id) ==
    IF Truthy(runtime_session_id)
    THEN LET ctx == IF Has(resp, "context") THEN resp["context"] ELSE NoEnhancedContext
         IN  Put(Put(resp, "session_id", runtime_session_id),
                 "context", [ctx EXCEPT !.runtime_session_id = runtime_session_id,
                                        !.session_id = runtime_session_id])
    ELSE resp

\* lines 673-763 of send_message, applied to what process_request returned
FinishResponse(resp, include_details, user_context, enhanced_context, runtime_session_id) ==
    LET sid == ProbeSession(runtime_session_id)
    IN  AddSessionId(
            AddSessionInfo(
                AddMemoryInfo(AddDetails(resp, include_details, user_context),
                              enhanced_context, user_context),
                sid),
            sid)

-----------------------------------------------------------------------------
(* SupervisorAgent.__init__ and _initialize_agent *)

\* the tools an A2A provider offers when it reached agent endpoints
A2ATools == <<"a2a_list_discovered_agents", "a2a_discover_agent", "a2a_send_message">>

\* AGENT_CONFIGS.keys(), in the order start_all_agents_in_background walks them
AgentOrder == <<"sentiment", "knowledge", "ticket", "resolution", "escalation">>

\* supervisor before `supervisor = SupervisorAgent()` has run. state: "new",
\* "starting" (inside start_all_agents_in_background), "started_all" (it returned),
\* "agents_started" (after _start_background_agents), "tools_ready" (after the A2A
\* provider block), "ready" (the Agent exists), "failed" (__init__ raised).
\* mode: "local", "container" or "disabled" (container with
\* DISABLE_BACKGROUND_AGENTS); attempted: the agents start_agent_in_thread was
\* called for; threads: self.agent_threads; grace: the time.sleep(10) after the
\* starts; a2a: outcome of the A2A provider block; tools: all_tools.
SupervisorInit ==
    [state |-> "new", mode |-> "unknown", attempted |-> <<>>, threads |-> <<>>,
     grace |-> "pending", a2a |-> "pending", agent |-> "pending", tools |-> <<>>]

\* mutant: the supervisor goes on without waiting for the agents to bind
GraceAfterStartSkipped(threads) == "skipped"

\* if self.agent_threads: ... time.sleep(10), else: only a warning
GraceAfterStart(threads) == IF threads # <<>> THEN "waited" ELSE "skipped"

\* threads after start_agent_in_thread returned a thread or None
ThreadsAfterStart(threads, agent_name, outcome) ==
    IF outcome = "started" THEN Append(threads, agent_name) ELSE threads

\* mutant: the except branch of the provider block re-raises
AfterA2AProviderStrict(outcome) ==
    IF outcome = "raised" THEN "failed" ELSE "tools_ready"

\* where _initialize_agent stands after the A2A provider block: the inner
\* try/except logs a warning and goes on, whatever the provider did
AfterA2AProvider(outcome) == "tools_ready"

\* a2a_tools after the A2A provider block
A2AProviderTools(outcome) == IF outcome = "tools" THEN A2ATools ELSE <<>>

-----------------------------------------------------------------------------
(* S3VectorManager.create_vector_bucket *)

MinBucketNameLen == 3    \* len(bucket_name) < 3
MaxBucketNameLen == 63   \* len(bucket_name) > 63

\* the characters a bucket name is drawn from
BucketNameChars == {"a", "B", "1", "-", "_"}

IsLowerChar(c) == c \in {"a"}
IsUpperChar(c) == c \in {"B"}
IsAlnum(c) == c \in {"a", "B", "1"}

\* str.islower(): at least one cased character and no upper-case one
IsLower(name) ==
    /\ \E i \in DOMAIN name : IsLowerChar(name[i])
    /\ \A i \in DOMAIN name : ~IsUpperChar(name[i])

validate_bucket_name(bucket_name) ==
    /\ bucket_name # <<>>
    /\ ~(Len(bucket_name) < MinBucketNameLen \/ Len(bucket_name) > MaxBucketNameLen)
    /\ IsLower(bucket_name)
    /\ \A i \in DOMAIN bucket_name : IsAlnum(bucket_name[i]) \/ bucket_name[i] = "-"
    /\ ~(bucket_name[1] = "-" \/ bucket_name[Len(bucket_name)] = "-")

\* what s3vectors_client.create_vector_bucket may do: answer, raise a ClientError
\* with an error code, raise a BotoCoreError, raise something else
ClientOutcomes ==
    {"ok", "ConflictException", "ValidationException", "AccessDeniedException",
     "ServiceQuotaExceededException", "ThrottlingException", "InternalServerException",
     "BotoCoreError", "Exception"}

\* the handlers of create_vector_bucket: what the call does after the client's
\* outcome. "retry" is `return self.create_vector_bucket()`.
OnClientOutcome(outcome) ==
    CASE outcome = "ok" -> [pc |-> "returned", result |-> "response"]
      [] outcome = "ConflictException" -> [pc |-> "returned", result |-> "exists"]
      [] outcome = "ValidationException" -> [pc |-> "raised", result |-> "ValueError"]
      [] outcome = "AccessDeniedException" -> [pc |-> "raised", result |-> "PermissionError"]
      [] outcome = "ServiceQuotaExceededException" -> [pc |-> "raised", result |-> "RuntimeError"]
      [] outcome = "ThrottlingException" -> [pc |-> "retry", result |-> NONE]
      [] outcome = "BotoCoreError" -> [pc |-> "raised", result |-> "RuntimeError"]
      [] outcome = "Exception" -> [pc |-> "raised", result |-> "Exception"]
      [] OTHER -> [pc |-> "raised", result |-> "RuntimeError"]

\* no call of create_vector_bucket is under way. attempts: calls of the client made
\* so far; depth: nesting of create_vector_bucket inside itself; slept: seconds
\* spent in time.sleep(2)
VectorBucketInit ==
    [pc |-> "idle", bucket_name |-> <<>>, attempts |-> 0, depth |-> 0, slept |-> 0,
     result |-> NONE]

-----------------------------------------------------------------------------
(* Knowledge base: src/lambda/knowledge_ingestion/main.py,
   src/shared/utils/knowledge_ingestion_service.py,
   src/lambda/knowledge_search/main.py and
   src/shared/utils/knowledge_search_service.py.
   A text (title, content, query) is modelled by its length, the only thing the
   handlers look at; length 0 stands for a missing or empty text, which
   `not article.get(...)` does not tell apart. *)

MaxTitleLen == 500          \* len(article['title']) > 500
MaxContentLen == 50000      \* len(article['content']) > 50000
MaxBatchArticles == 100     \* len(articles) > 100
MaxQueryLen == 1000         \* len(query) > 1000
DefaultMaxResults == 5      \* event.get('max_results', 5)
MinMaxResults == 1          \* max_results < 1
MaxMaxResults == 50         \* max_results > 50

valid_tiers == {"basic", "premium", "enterprise"}

\* validate_article_data without its check of the customer tier
validate_article_data_any_tier(article) ==
    /\ article.title > 0
    /\ article.title <= MaxTitleLen
    /\ article.content > 0
    /\ article.content <= MaxContentLen

\* validate_article_data(article)['valid']. The articles of the model give no
\* category, language or difficulty, so those three checks add no error.
validate_article_data(article) ==
    /\ article.title > 0
    /\ article.title <= MaxTitleLen
    /\ article.content > 0
    /\ article.content <= MaxContentLen
    /\ (Truthy(article.customer_tier) => article.customer_tier \in valid_tiers)

\* article.get('id', f"article-{hash(article['title'])}"): the titles that pass
\* the checks all have one length in the model, hence one hash
vector_key(article) ==
    IF article.id # NONE THEN article.id ELSE "article-hash"

\* the metadata ingest_article stores with the vector, as far as search reads it
ArticleMetadata(article) ==
    [customer_tier |-> Default(article.customer_tier, "basic")]

\* what ingest_article can meet: the vector is stored, or generate_embedding or
\* put_vectors raises
IngestOutcomes == {"stored", "raises"}

\* result['status'] of ingest_article(article)
ingest_status(article, outcome) ==
    IF article.title > 0 /\ article.content > 0 /\ outcome = "stored"
    THEN "success"
    ELSE "error"

\* the index after ingest_article(article): put_vectors replaces the vector of a key
ingest_article(vectors, article, outcome) ==
    IF ingest_status(article, outcome) = "success"
    THEN Put(vectors, vector_key(article), ArticleMetadata(article))
    ELSE vectors

RECURSIVE batch_ingest_articles(_, _, _, _)
\* the loop of batch_ingest_articles from article i on; `results` also carries the
\* index as the loop leaves it
batch_ingest_articles(results, articles, outcomes, i) ==
    IF i > Len(articles) THEN results
    ELSE LET ok == ingest_status(articles[i], outcomes[i]) = "success"
             next ==
                 [results EXCEPT
                     !.vectors = ingest_article(@, articles[i], outcomes[i]),
                     !.successful = IF ok THEN @ + 1 ELSE @,
                     !.successful_articles =
                         IF ok THEN Append(@, vector_key(articles[i])) ELSE @,
                     !.failed = IF ok THEN @ ELSE @ + 1]
         IN  batch_ingest_articles(next, articles, outcomes, i + 1)

\* the `results` dict batch_ingest_articles starts from
BatchResultsInit(vectors, articles) ==
    [vectors |-> vectors, total_articles |-> Len(articles), successful |-> 0,
     failed |-> 0, successful_articles |-> <<>>]

\* a handler's error response
ErrorResponse(code, error) == [statusCode |-> code, error |-> error]

\* str.strip().lower() on a tier or a language code
StripLower(t) ==
    CASE t = "Premium" -> "premium"
      [] t = " basic" -> "basic"
      [] t = "EN" -> "en"
      [] OTHER -> t

valid_search_tiers == {"basic", "premium", "enterprise"}

valid_languages == {"en", "es", "fr", "de", "ja"}

\* validate_search_input(event)['params']; max_results is <<>> when the event has
\* none and <<n>> when it gives the integer n
SearchParams(event) ==
    [query |-> event.query,
     customer_tier |-> StripLower(Default(event.customer_tier, "basic")),
     language |-> StripLower(Default(event.language, "en")),
     max_results |-> IF event.max_results = <<>> THEN DefaultMaxResults
                     ELSE event.max_results[1]]

\* validate_search_input(event)['valid']; the events of the model give no category
validate_search_input(event) ==
    LET params == SearchParams(event)
    IN  /\ params.query > 0
        /\ params.query <= MaxQueryLen
        /\ params.customer_tier \in valid_search_tiers
        /\ params.language \in valid_languages
        /\ params.max_results >= MinMaxResults
        /\ params.max_results <= MaxMaxResults

\* tier_hierarchy.get(tier, 0)
tier_hierarchy(tier) ==
    CASE tier = "basic" -> 0
      [] tier = "premium" -> 1
      [] tier = "enterprise" -> 2
      [] OTHER -> 0

\* the results search_knowledge_base can return: query_vectors answers with at most
\* top_k vectors of the index, in an order (by distance) the model leaves open
SearchResults(vectors, top_k) ==
    LET keys == DOMAIN vectors
        n == IF top_k < Cardinality(keys) THEN top_k ELSE Cardinality(keys)
    IN  {[i \in 1..Len(ks) |->
             [id |-> ks[i], customer_tier |-> vectors[ks[i]].customer_tier]] :
         ks \in {q \in SeqsUpTo(keys, n) :
                    \A i, j \in 1..Len(q) : i # j => q[i] # q[j]}}

\* formatted_results without the tier filter
formatted_results_unfiltered(results, params) == results

\* the loop that builds formatted_results: tier filtering in post-processing
formatted_results(results, params) ==
    LET customer_level == tier_hierarchy(params.customer_tier)
        Accessible(result) == tier_hierarchy(result.customer_tier) <= customer_level
    IN  SelectSeq(results, Accessible)

\* no handler has run and the index is empty
KnowledgeBaseInit ==
    [vectors |-> EmptyDict, handler |-> "none", event |-> EmptyDict,
     response |-> EmptyDict]

-----------------------------------------------------------------------------
(* Tickets: src/lambda/ticket_management/main.py *)

valid_priorities == {"critical", "high", "medium", "low"}

valid_categories == {"account", "billing", "technical", "how-to", "general"}

valid_statuses == {"open", "in-progress", "resolved", "closed", "escalated", "cancelled"}

\* event.get(key, default) followed by `if value not in valid: value = default`
Validated(value, valid, default) ==
    IF Default(value, default) \in valid THEN Default(value, default) ELSE default

\* the ticket_item create_ticket puts, as far as status, priority and category go
ticket_item(event) ==
    [status |-> Validated(event.status, valid_statuses, "open"),
     priority |-> Validated(event.priority, valid_priorities, "medium"),
     category |-> Validated(event.category, valid_categories, "general")]

\* the ticket ids uuid4 can give, in the order the model hands them out
TicketIds == <<"T1", "T2", "T3", "T4">>

\* generate_ticket_id(): an id no stored ticket has; the model takes the first of
\* TicketIds that is free
FreeTicketIds(table) ==
    {i \in 1..MaxTickets : TicketIds[i] \notin DOMAIN table}

generate_ticket_id(table) ==
    TicketIds[CHOOSE i \in FreeTicketIds(table) :
                 \A j \in FreeTicketIds(table) : i <= j]

\* update_ticket_status without its check of the new status
UpdateRejectsAnyStatus(event) ==
    IF ~Truthy(event.ticket_id)
    THEN ErrorResponse(400, "ticket_id is required")
    ELSE IF ~Truthy(event.status)
    THEN ErrorResponse(400, "status is required")
    ELSE EmptyDict

\* the response with which update_ticket_status returns before it writes,
\* EmptyDict when it goes on to update_item
UpdateRejects(event) ==
    IF ~Truthy(event.ticket_id)
    THEN ErrorResponse(400, "ticket_id is required")
    ELSE IF ~Truthy(event.status)
    THEN ErrorResponse(400, "status is required")
    ELSE IF event.status \notin valid_statuses
    THEN ErrorResponse(400, "Invalid status")
    ELSE EmptyDict

\* table.update_item(Key, "SET #status = :status, ..."): sets the status of the
\* item with that key, and creates the item when the table has none
update_item(table, ticket_id, new_status) ==
    IF ticket_id \in DOMAIN table
    THEN [table EXCEPT ![ticket_id].status = new_status]
    ELSE Put(table, ticket_id,
             [status |-> new_status, priority |-> NONE, category |-> NONE])

\* what a call of the table can meet
TableOutcomes == {"ok", "raises"}

\* no operation has run and the table is empty
TicketsInit ==
    [table |-> EmptyDict, operation |-> "none", event |-> EmptyDict,
     response |-> EmptyDict]

-----------------------------------------------------------------------------
(* State *)

FrameInit ==
    [question |-> NONE, context |-> EmptyContext, include_details |-> FALSE,
     runtime_session_id |-> NONE, user_id_for_ltm |-> NONE,
     user_context |-> NoUserContext, enhanced_context |-> NoEnhancedContext]

NoResult == [kind |-> "none", calls |-> <<>>, text |-> <<>>]

WorkInit ==
    [history_text |-> NoBlock, recent_turns |-> <<>>, memories |-> <<>>,
     user_info |-> NoPrompt,
     result |-> NoResult, trace |-> EmptyTrace]

InitWith(keepsLog) ==
    /\ pc = [p \in Slots |-> "idle"]
    /\ request = [p \in Slots |-> NoRequest]
    /\ frame = [p \in Slots |-> FrameInit]
    /\ work = [p \in Slots |-> WorkInit]
    /\ response = [p \in Slots |-> EmptyDict]
    /\ extcalls = [p \in Slots |-> <<>>]
    /\ conversation = <<>>
    /\ agentKeepsLog \in keepsLog
    /\ running = NoSlot
    /\ supervisor = SupervisorInit
    /\ vectorBucket = VectorBucketInit
    /\ knowledgeBase = KnowledgeBaseInit
    /\ tickets = TicketsInit

\* the slot's coroutine returns `resp` and gives up the event loop
ReturnWith(p, resp) ==
    /\ response' = [response EXCEPT ![p] = resp]
    /\ pc' = [pc EXCEPT ![p] = "done"]
    /\ running' = NoSlot

-----------------------------------------------------------------------------
(* send_message, up to the call of process_request *)

\* _start_background_agents, up to the call of start_all_agents_in_background:
\* outside a container, or with the agents disabled, nothing is started
StartBackgroundAgents(modes) ==
    /\ supervisor.state = "new"
    /\ \E mode \in modes :
         supervisor' = [supervisor EXCEPT
                          !.mode = mode,
                          !.state = CASE mode = "container" -> "starting"
                                      [] mode = "disabled" -> "started_all"
                                      [] OTHER -> "agents_started",
                          !.grace = IF mode \in {"container", "disabled"}
                                    THEN @ ELSE "skipped"]
    /\ UNCHANGED <<pc, request, frame, work, response, extcalls, conversation,
                   agentKeepsLog, running>>
    /\ UNCHANGED libVars

\* one iteration of `for agent_name in agents_to_start`: start_agent_in_thread
\* returns a thread ("started") or catches its failure and returns None ("failed")
StartAgentInThread(outcomes) ==
    /\ supervisor.state = "starting"
    /\ LET agent_name == AgentOrder[Len(supervisor.attempted) + 1]
       IN  \E outcome \in outcomes :
             supervisor' = [supervisor EXCEPT
                              !.attempted = Append(@, agent_name),
                              !.threads = ThreadsAfterStart(@, agent_name, outcome),
                              !.state = IF Len(supervisor.attempted) + 1 = Len(AgentOrder)
                                        THEN "started_all" ELSE "starting"]
    /\ UNCHANGED <<pc, request, frame, work, response, extcalls, conversation,
                   agentKeepsLog, running>>
    /\ UNCHANGED libVars

\* _start_background_agents after start_all_agents_in_background returned: the
\* grace wait when at least one thread was started
GraceWait ==
    /\ supervisor.state = "started_all"
    /\ supervisor' = [supervisor EXCEPT !.state = "agents_started",
                                         !.grace = GraceAfterStart(supervisor.threads)]
    /\ UNCHANGED <<pc, request, frame, work, response, extcalls, conversation,
                   agentKeepsLog, running>>
    /\ UNCHANGED libVars

\* _initialize_agent, the A2A provider block: the provider raises ("raised"),
\* yields no tools ("empty") or yields its tools ("tools")
InitializeA2AProvider ==
    /\ supervisor.state = "agents_started"
    /\ \E outcome \in {"raised", "empty", "tools"} :
         supervisor' = [supervisor EXCEPT !.state = AfterA2AProvider(outcome),
                                          !.a2a = outcome,
                                          !.tools = A2AProviderTools(outcome)]
    /\ UNCHANGED <<pc, request, frame, work, response, extcalls, conversation,
                   agentKeepsLog, running>>
    /\ UNCHANGED libVars

\* _initialize_agent, the model and the Agent: built with all_tools, or a
\* constructor raises and the exception leaves __init__
CreateAgent ==
    /\ supervisor.state = "tools_ready"
    /\ \/ supervisor' = [supervisor EXCEPT !.state = "ready", !.agent = "ok"]
       \/ supervisor' = [supervisor EXCEPT !.state = "failed", !.agent = "raised"]
    /\ UNCHANGED <<pc, request, frame, work, response, extcalls, conversation,
                   agentKeepsLog, running>>
    /\ UNCHANGED libVars

\* a request arrives and its coroutine starts
Receive(p, requests) ==
    /\ supervisor.state = "ready"
    /\ pc[p] = "idle"
    /\ running = NoSlot
    /\ agentKeepsLog => Len(conversation) < MaxLog
    /\ \E r \in requests : request' = [request EXCEPT ![p] = r]
    /\ pc' = [pc EXCEPT ![p] = "entry"]
    /\ running' = p
    /\ UNCHANGED <<frame, work, response, extcalls, conversation, agentKeepsLog, supervisor>>
    /\ UNCHANGED libVars

\* convert the request to a dict, reject what is no dict
Normalize(p) ==
    /\ pc[p] = "entry"
    /\ running = p
    /\ LET req == ConvertRequest(request[p])
       IN  /\ request' = [request EXCEPT ![p] = req]
           /\ IF IsDict(req)
              THEN /\ pc' = [pc EXCEPT ![p] = "extract"]
                   /\ UNCHANGED <<response, running>>
              ELSE ReturnWith(p, InvalidRequestEnvelope)
    /\ UNCHANGED <<frame, work, extcalls, conversation, agentKeepsLog, supervisor>>
    /\ UNCHANGED libVars

\* question, context, include_details; reject a request without question
ExtractText(p) ==
    /\ pc[p] = "extract"
    /\ running = p
    /\ frame' = [frame EXCEPT ![p] =
                    [@ EXCEPT !.question = ExtractQuestion(request[p]),
                              !.context = ExtractContext(request[p]),
                              !.include_details = request[p].include_details]]
    /\ IF HasQuestion(ExtractQuestion(request[p]))
       THEN /\ pc' = [pc EXCEPT ![p] = "resolve"]
            /\ UNCHANGED <<response, running>>
       ELSE ReturnWith(p, MissingQuestionEnvelope)
    /\ UNCHANGED <<request, work, extcalls, conversation, agentKeepsLog, supervisor>>
    /\ UNCHANGED libVars

\* session id, user id, user_context, enhanced_context
Resolve(p) ==
    /\ pc[p] = "resolve"
    /\ running = p
    /\ IF ContextRaises(frame[p].context)
       THEN /\ ReturnWith(p, EntryExceptionEnvelope)
            /\ UNCHANGED frame
       ELSE LET context == frame[p].context
                sid == ResolveSession(request[p], context)
                uid == ResolveUserId(request[p], context)
                uc == UserContext(context, uid, sid)
            IN  /\ frame' = [frame EXCEPT ![p] =
                                [@ EXCEPT !.runtime_session_id = sid,
                                          !.user_id_for_ltm = uid,
                                          !.user_context = uc,
                                          !.enhanced_context = EnhancedContext(context, uc, sid)]]
                /\ pc' = [pc EXCEPT ![p] = "process"]
                /\ UNCHANGED <<response, running>>
    /\ UNCHANGED <<request, work, extcalls, conversation, agentKeepsLog, supervisor>>
    /\ UNCHANGED libVars

-----------------------------------------------------------------------------
(* process_request, called with question and enhanced_context *)

SetWork(p, field, value) == work' = [work EXCEPT ![p] = [@ EXCEPT ![field] = value]]

LogCall(p, call) == extcalls' = [extcalls EXCEPT ![p] = Append(@, call)]

\* choose the memory strategy from conversation_history and user_id
SelectStrategy(p) ==
    /\ pc[p] = "process"
    /\ running = p
    /\ LET context == frame[p].enhanced_context
           conversation_history == context.conversation_history
       IN  IF UsesLtm(conversation_history, context.user_id)
           THEN /\ pc' = [pc EXCEPT ![p] = "ltm_client"]
                /\ UNCHANGED work
           ELSE /\ pc' = [pc EXCEPT ![p] = "prompt"]
                /\ SetWork(p, "history_text",
                           IF conversation_history # <<>>
                           THEN HistoryBlock(conversation_history)
                           ELSE FirstMessageNotice)
    /\ UNCHANGED <<request, frame, response, extcalls, conversation, agentKeepsLog, supervisor, running>>
    /\ UNCHANGED libVars

\* memory_client = MemoryClient(region_name=AWS_REGION): succeeds or raises
MemoryClientInit(p) ==
    /\ pc[p] = "ltm_client"
    /\ running = p
    /\ \/ /\ LogCall(p, MemoryClientCall("ok"))
          /\ pc' = [pc EXCEPT ![p] = "ltm_turns"]
          /\ UNCHANGED work
       \/ /\ LogCall(p, MemoryClientCall("raised"))
          /\ pc' = [pc EXCEPT ![p] = "prompt"]
          /\ SetWork(p, "history_text", FailedLtmNotice(frame[p].enhanced_context.user_id))
    /\ UNCHANGED <<request, frame, response, conversation, agentKeepsLog, supervisor, running>>
    /\ UNCHANGED libVars

\* recent_turns = memory_client.get_last_k_turns(...): returns turns or raises
GetLastKTurns(p, turnLists) ==
    /\ pc[p] = "ltm_turns"
    /\ running = p
    /\ \/ \E recent_turns \in turnLists :
            /\ LogCall(p, GetLastKTurnsCall(frame[p].enhanced_context, "ok"))
            /\ SetWork(p, "recent_turns", recent_turns)
            /\ pc' = [pc EXCEPT ![p] =
                         IF recent_turns = <<>> THEN "ltm_semantic" ELSE "ltm_render"]
       \/ /\ LogCall(p, GetLastKTurnsCall(frame[p].enhanced_context, "raised"))
          /\ pc' = [pc EXCEPT ![p] = "prompt"]
          /\ SetWork(p, "history_text", FailedLtmNotice(frame[p].enhanced_context.user_id))
    /\ UNCHANGED <<request, frame, response, conversation, agentKeepsLog, supervisor, running>>
    /\ UNCHANGED libVars

\* memories = memory_client.retrieve_memories(...): the block is written when
\* memories come back; a raise is caught by the inner except
RetrieveMemories(p, memoryLists) ==
    /\ pc[p] = "ltm_semantic"
    /\ running = p
    /\ \/ /\ LogCall(p, RetrieveMemoriesCall(frame[p].enhanced_context,
                                               frame[p].question, "ok"))
          /\ \E memories \in memoryLists :
                work' = [work EXCEPT ![p] =
                            [@ EXCEPT !.memories = memories,
                                      !.history_text = IF memories # <<>>
                                                       THEN SemanticBlock(memories)
                                                       ELSE @]]
       \/ /\ LogCall(p, RetrieveMemoriesCall(frame[p].enhanced_context,
                                               frame[p].question, "raised"))
          /\ UNCHANGED work
    /\ pc' = [pc EXCEPT ![p] = "ltm_render"]
    /\ UNCHANGED <<request, frame, response, conversation, agentKeepsLog, supervisor, running>>
    /\ UNCHANGED libVars

\* if recent_turns: write the long-term block, else: write the no-history notice
RenderLtm(p) ==
    /\ pc[p] = "ltm_render"
    /\ running = p
    /\ SetWork(p, "history_text",
               IF work[p].recent_turns # <<>>
               THEN LtmTurnsBlock(work[p].recent_turns)
               ELSE NoLtmNotice(frame[p].enhanced_context.user_id))
    /\ pc' = [pc EXCEPT ![p] = "prompt"]
    /\ UNCHANGED <<request, frame, response, extcalls, conversation, agentKeepsLog, supervisor, running>>
    /\ UNCHANGED libVars

\* ltm_note and user_info
BuildPrompt(p) ==
    /\ pc[p] = "prompt"
    /\ running = p
    /\ SetWork(p, "user_info",
               UserInfo(frame[p].enhanced_context, work[p].history_text, frame[p].question))
    /\ pc' = [pc EXCEPT ![p] = "invoke"]
    /\ UNCHANGED <<request, frame, response, extcalls, conversation, agentKeepsLog, supervisor, running>>
    /\ UNCHANGED libVars

\* await self.agent.invoke_async(user_info): the coroutine is suspended
InvokeDecision(p) ==
    /\ pc[p] = "invoke"
    /\ running = p
    /\ LogCall(p, InvokeCall(work[p].user_info))
    /\ pc' = [pc EXCEPT ![p] = "awaiting"]
    /\ running' = NoSlot
    /\ UNCHANGED <<request, frame, work, response, conversation, agentKeepsLog, supervisor>>
    /\ UNCHANGED libVars

\* the decision step returns a result; an agent that keeps a conversation log has
\* appended the calls it made. An agent built without tools makes no calls.
DecisionReturns(p, results) ==
    /\ pc[p] = "awaiting"
    /\ running = NoSlot
    /\ \E result \in results :
        /\ supervisor.tools = <<>> => result.calls = <<>>
        /\ SetWork(p, "result", result)
        /\ conversation' = IF agentKeepsLog
                           THEN Append(conversation, [tool_calls |-> result.calls])
                           ELSE conversation
    /\ pc' = [pc EXCEPT ![p] = "returned"]
    /\ running' = p
    /\ UNCHANGED <<request, frame, response, extcalls, agentKeepsLog, supervisor>>
    /\ UNCHANGED libVars

\* mutant: a raising decision step is invoked a second time before giving up
DecisionRaisesRetry(p) ==
    /\ pc[p] = "awaiting"
    /\ running = NoSlot
    /\ IF Len(extcalls[p]) > 0 /\ Len(SelectSeq(extcalls[p], LAMBDA c : c.op = "invoke_async")) < 2
       THEN /\ pc' = [pc EXCEPT ![p] = "invoke"]
            /\ UNCHANGED response
       ELSE /\ response' = [response EXCEPT ![p] = ProcessErrorEnvelope(frame[p].enhanced_context)]
            /\ pc' = [pc EXCEPT ![p] = "finish"]
    /\ running' = p
    /\ UNCHANGED <<request, frame, work, extcalls, conversation, agentKeepsLog, supervisor>>
    /\ UNCHANGED libVars

\* the decision step raises: process_request returns its error envelope
DecisionRaises(p) ==
    /\ pc[p] = "awaiting"
    /\ running = NoSlot
    /\ response' = [response EXCEPT ![p] = ProcessErrorEnvelope(frame[p].enhanced_context)]
    /\ pc' = [pc EXCEPT ![p] = "finish"]
    /\ running' = p
    /\ UNCHANGED <<request, frame, work, extcalls, conversation, agentKeepsLog, supervisor>>
    /\ UNCHANGED libVars

\* trace reconstruction and response_dict; response_dict["context"] is the
\* enhanced_context object itself, so writing conversation_context changes both
BuildResponse(p) ==
    /\ pc[p] = "returned"
    /\ running = p
    /\ LET trace == ReconstructTrace(work[p].result, agentKeepsLog, conversation)
           context == [frame[p].enhanced_context EXCEPT
                          !.conversation_context = ConversationContext(trace.response_trace)]
       IN  IF trace.raised
           THEN /\ response' = [response EXCEPT ![p] =
                                   ProcessErrorEnvelope(frame[p].enhanced_context)]
                /\ UNCHANGED <<frame, work>>
           ELSE /\ response' = [response EXCEPT ![p] =
                                   ProcessedResponse(work[p].result, trace, context)]
                /\ frame' = [frame EXCEPT ![p] = [@ EXCEPT !.enhanced_context = context]]
                /\ SetWork(p, "trace", trace)
    /\ pc' = [pc EXCEPT ![p] = "finish"]
    /\ UNCHANGED <<request, extcalls, conversation, agentKeepsLog, supervisor, running>>
    /\ UNCHANGED libVars

\* mutant: the turn is stored in the Memory Store after the response is built
FinishStoresTurn(p) ==
    /\ pc[p] = "finish"
    /\ running = p
    /\ ReturnWith(p, FinishResponse(response[p], frame[p].include_details,
                                    frame[p].user_context, frame[p].enhanced_context,
                                    frame[p].runtime_session_id))
    /\ LogCall(p, MemoryClientCall("ok"))
    /\ UNCHANGED <<request, frame, work, conversation, agentKeepsLog, supervisor>>
    /\ UNCHANGED libVars

\* send_message after process_request returned
Finish(p) ==
    /\ pc[p] = "finish"
    /\ running = p
    /\ ReturnWith(p, FinishResponse(response[p], frame[p].include_details,
                                    frame[p].user_context, frame[p].enhanced_context,
                                    frame[p].runtime_session_id))
    /\ UNCHANGED <<request, frame, work, extcalls, conversation, agentKeepsLog, supervisor>>
    /\ UNCHANGED libVars

\* the caller has the response; the slot is free for the next request
Deliver(p) ==
    /\ pc[p] = "done"
    /\ pc' = [pc EXCEPT ![p] = "idle"]
    /\ request' = [request EXCEPT ![p] = NoRequest]
    /\ frame' = [frame EXCEPT ![p] = FrameInit]
    /\ work' = [work EXCEPT ![p] = WorkInit]
    /\ response' = [response EXCEPT ![p] = EmptyDict]
    /\ extcalls' = [extcalls EXCEPT ![p] = <<>>]
    /\ UNCHANGED <<conversation, agentKeepsLog, supervisor, running>>
    /\ UNCHANGED libVars

-----------------------------------------------------------------------------
(* S3VectorManager.create_vector_bucket, called by the deployment scripts *)

\* create_vector_bucket() is called on a manager whose bucket_name is one of `names`
CallCreateVectorBucket(names) ==
    /\ vectorBucket.pc = "idle"
    /\ \E name \in names :
         vectorBucket' = [VectorBucketInit EXCEPT !.pc = "validate", !.bucket_name = name]
    /\ UNCHANGED <<routerVars, knowledgeBase, tickets>>

\* the name check at the head of the try block; its ValueError is re-raised by
\* `except Exception`
ValidateBucket ==
    /\ vectorBucket.pc = "validate"
    /\ vectorBucket' =
         IF validate_bucket_name(vectorBucket.bucket_name)
         THEN [vectorBucket EXCEPT !.pc = "call"]
         ELSE [vectorBucket EXCEPT !.pc = "raised", !.result = "ValueError"]
    /\ UNCHANGED <<routerVars, knowledgeBase, tickets>>

\* s3vectors_client.create_vector_bucket(...) and the handler of its outcome
ClientCreateVectorBucket ==
    /\ vectorBucket.pc = "call"
    /\ vectorBucket.attempts < MaxAttempts
    /\ \E outcome \in ClientOutcomes :
         vectorBucket' = [vectorBucket EXCEPT
                            !.attempts = @ + 1,
                            !.pc = OnClientOutcome(outcome).pc,
                            !.result = OnClientOutcome(outcome).result]
    /\ UNCHANGED <<routerVars, knowledgeBase, tickets>>

\* time.sleep(2); return self.create_vector_bucket(): the method is entered again
\* from its first line
RetryCreateVectorBucket ==
    /\ vectorBucket.pc = "retry"
    /\ vectorBucket' = [vectorBucket EXCEPT !.pc = "validate", !.depth = @ + 1,
                                             !.slept = @ + 2]
    /\ UNCHANGED <<routerVars, knowledgeBase, tickets>>

\* the caller has the result or the exception
FinishCreateVectorBucket ==
    /\ vectorBucket.pc \in {"returned", "raised"}
    /\ vectorBucket' = VectorBucketInit
    /\ UNCHANGED <<routerVars, knowledgeBase, tickets>>

-----------------------------------------------------------------------------
(* lambda_handler of knowledge_ingestion and of knowledge_search; one invocation is
   one step, as the handlers keep nothing between invocations but the index *)

\* the response with which the ingestion handler returns before it calls the
\* ingestion service, EmptyDict when it goes on to ingest. init: whether
\* KnowledgeIngestionService() could be constructed
IngestionRejects(event, init) ==
    LET action == Default(event.action, "ingest")
    IN  IF init = "raises"
        THEN ErrorResponse(500, "Service initialization failed")
        ELSE IF event.shape = "bad_body"
        THEN ErrorResponse(400, "Invalid JSON in request body")
        ELSE IF action = "ingest"
        THEN IF event.article = <<>>
             THEN ErrorResponse(400, "Article data is required for ingestion")
             ELSE IF ~validate_article_data(event.article[1])
             THEN ErrorResponse(400, "Invalid article data")
             ELSE EmptyDict
        ELSE IF action = "batch_ingest"
        THEN IF event.articles = <<>>
             THEN ErrorResponse(400, "Articles array is required for batch ingestion")
             ELSE IF Len(event.articles) > MaxBatchArticles
             THEN ErrorResponse(400, "Too many articles for batch ingestion (max 100)")
             ELSE IF \E i \in 1..Len(event.articles) :
                         ~validate_article_data(event.articles[i])
             THEN ErrorResponse(400, "Invalid articles in batch")
             ELSE EmptyDict
        ELSE ErrorResponse(400, "Unknown action")

\* the ingestion handler after `result = ingestion_service.ingest_article(article)`
IngestReturns(event, outcome) ==
    LET article == event.article[1]
    IN  [knowledgeBase EXCEPT
            !.handler = "ingestion", !.event = event,
            !.vectors = ingest_article(@, article, outcome),
            !.response =
                IF ingest_status(article, outcome) = "success"
                THEN [statusCode |-> 200, article_id |-> vector_key(article)]
                ELSE ErrorResponse(500, "Failed to ingest article")]

\* the ingestion handler after
\* `result = ingestion_service.batch_ingest_articles(articles)`
BatchIngestReturns(event, outcomes) ==
    LET result == batch_ingest_articles(
                      BatchResultsInit(knowledgeBase.vectors, event.articles),
                      event.articles, outcomes, 1)
    IN  [knowledgeBase EXCEPT
            !.handler = "ingestion", !.event = event,
            !.vectors = result.vectors,
            !.response =
                [statusCode |-> 200,
                 total_articles |-> result.total_articles,
                 successful |-> result.successful,
                 failed |-> result.failed,
                 successful_articles |-> result.successful_articles]]

\* knowledge_ingestion.lambda_handler(event, context); the actions update and
\* delete are not followed
IngestionHandler(events) ==
    /\ \E event \in events, init \in {"ok", "raises"} :
         LET rejected == IngestionRejects(event, init)
         IN  IF rejected # EmptyDict
             THEN knowledgeBase' =
                      [knowledgeBase EXCEPT !.handler = "ingestion", !.event = event,
                                            !.response = rejected]
             ELSE IF Default(event.action, "ingest") = "ingest"
             THEN \E outcome \in IngestOutcomes :
                      knowledgeBase' = IngestReturns(event, outcome)
             ELSE \E outcomes \in [1..Len(event.articles) -> IngestOutcomes] :
                      knowledgeBase' = BatchIngestReturns(event, outcomes)
    /\ UNCHANGED <<routerVars, vectorBucket, tickets>>

\* the search handler from `search_results = search_service.search_knowledge_base`
\* to its successful return
SearchReturns(event, results) ==
    LET params == SearchParams(event)
        formatted == formatted_results(results, params)
    IN  [knowledgeBase EXCEPT
            !.handler = "search", !.event = event,
            !.response =
                [statusCode |-> 200,
                 results |-> formatted,
                 total_found |-> Len(formatted),
                 language |-> params.language,
                 customer_tier |-> params.customer_tier]]

\* the index knowledge-base-{language}; ingestion puts the articles of the model
\* into knowledge-base-en
IndexOf(language) ==
    IF language = "en" THEN knowledgeBase.vectors ELSE EmptyDict

\* knowledge_search.lambda_handler(event, context). init: whether
\* KnowledgeSearchService() could be constructed; the search itself can raise or
\* report an error
SearchHandler(events) ==
    /\ \E event \in events, init \in {"ok", "raises"} :
         LET params == SearchParams(event)
             Returns(resp) ==
                 knowledgeBase' =
                     [knowledgeBase EXCEPT !.handler = "search", !.event = event,
                                           !.response = resp]
         IN  IF ~validate_search_input(event)
             THEN Returns(ErrorResponse(400, "Invalid input parameters"))
             ELSE IF init = "raises"
             THEN Returns(ErrorResponse(500, "Service initialization failed"))
             ELSE \/ Returns(ErrorResponse(500, "Search failed"))
                  \/ \E results \in
                         SearchResults(IndexOf(params.language), params.max_results) :
                         knowledgeBase' = SearchReturns(event, results)
    /\ UNCHANGED <<routerVars, vectorBucket, tickets>>

-----------------------------------------------------------------------------
(* create_ticket and update_ticket_status of ticket_management, the two operations
   of lambda_handler that write to the table; one call is one step *)

create_ticket(events) ==
    /\ FreeTicketIds(tickets.table) # {}
    /\ \E event \in events, outcome \in TableOutcomes :
         LET ticket_id == generate_ticket_id(tickets.table)
             item == ticket_item(event)
         IN  tickets' =
                 IF outcome = "ok"
                 THEN [table |-> Put(tickets.table, ticket_id, item),
                       operation |-> "create", event |-> event,
                       response |-> [statusCode |-> 200, success |-> TRUE,
                                     ticket_id |-> ticket_id,
                                     status |-> item.status,
                                     priority |-> item.priority,
                                     category |-> item.category]]
                 ELSE [tickets EXCEPT
                          !.operation = "create", !.event = event,
                          !.response = ErrorResponse(500, "Failed to create ticket")]
    /\ UNCHANGED <<routerVars, vectorBucket, knowledgeBase>>

update_ticket_status(events) ==
    /\ \E event \in events, outcome \in TableOutcomes :
         LET rejected == UpdateRejects(event)
         IN  tickets' =
                 IF rejected # EmptyDict
                 THEN [tickets EXCEPT !.operation = "update_status", !.event = event,
                                      !.response = rejected]
                 ELSE IF outcome = "ok"
                 THEN [table |-> update_item(tickets.table, event.ticket_id,
                                             event.status),
                       operation |-> "update_status", event |-> event,
                       response |-> [statusCode |-> 200, success |-> TRUE,
                                     ticket_id |-> event.ticket_id,
                                     status |-> event.status]]
                 ELSE [tickets EXCEPT
                          !.operation = "update_status", !.event = event,
                          !.response =
                              ErrorResponse(500, "Failed to update ticket status")]
    /\ UNCHANGED <<routerVars, vectorBucket, knowledgeBase>>

-----------------------------------------------------------------------------
(* Inputs *)

Ctx(user_id, camel, snake, authenticated, history) ==
    [EmptyContext EXCEPT !.user_id = user_id, !.runtimeSessionId = camel,
                         !.runtime_session_id = snake, !.session_id = "s-own",
                         !.username = "alice", !.authenticated = authenticated,
                         !.conversation_history = history]

AbsentContext == [EmptyContext EXCEPT !.kind = "absent"]
StringContext == [EmptyContext EXCEPT !.kind = "string"]

Req(shape, input, prompt, question, user_id, session_id, include_details, context) ==
    [shape |-> shape, input |-> input, prompt |-> prompt, question |-> question,
     user_id |-> user_id, session_id |-> session_id,
     include_details |-> include_details, context |-> context]

Turn1 == [role |-> "user", content |-> "My name is John"]
Turn2 == [role |-> "assistant", content |-> "Hello John"]

\* the texts of a caller's turns, pairwise distinct
HistoryTexts == <<"m1", "m2", "m3", "m4", "m5", "m6", "m7", "m8">>

\* the i-th entry of a caller-supplied history: roles alternate, texts differ
HistoryEntry(i) ==
    [role |-> IF i % 2 = 1 THEN "user" ELSE "assistant",
     content |-> HistoryTexts[((i - 1) % Len(HistoryTexts)) + 1]]

\* turn histories of 0..MaxHistory entries
Histories == {[i \in 1..n |-> HistoryEntry(i)] : n \in 0..MaxHistory}

\* requests of every shape with every combination of the three text aliases
TextRequests ==
    {Req(shape, input, prompt, question, NONE, NONE, FALSE, AbsentContext) :
        shape \in {"dict", "attrs", "dictmethod"},
        input \in {NONE, "", "in"}, prompt \in {NONE, "", "pr"},
        question \in {NONE, "", "qu"}}
    \cup {[NoRequest EXCEPT !.shape = shape] : shape \in {"bare", "badmethod"}}

\* requests with every combination of the identity and session sources
IdentityRequests ==
    {Req("dict", "in", NONE, NONE, user_id, session_id, FALSE,
         Ctx(ctx_user_id, camel, snake, FALSE, <<>>)) :
        user_id \in {NONE, "u-top"}, ctx_user_id \in {NONE, "", "u-ctx"},
        session_id \in {NONE, "s-top"}, camel \in {NONE, "s-camel"},
        snake \in {NONE, "s-snake"}}
    \cup {Req("dict", NONE, "pr", NONE, user_id, session_id, FALSE, context) :
            user_id \in {NONE, "u-top"}, session_id \in {NONE, "s-top"},
            context \in {AbsentContext, StringContext}}

\* requests with every combination of details flag, authentication and history
DetailRequests ==
    {Req("dict", NONE, NONE, "qu", NONE, session_id, include_details,
         Ctx(ctx_user_id, NONE, NONE, authenticated, history)) :
        session_id \in {NONE, "s-top"}, include_details \in BOOLEAN,
        ctx_user_id \in {NONE, "u-ctx"}, authenticated \in BOOLEAN,
        history \in Histories}

\* requests of an authenticated caller that ask for details and fail validation
RejectedDetailRequests ==
    {Req("dict", NONE, NONE, "", "u-top", "s-top", TRUE, Ctx("u-ctx", NONE, NONE, TRUE, <<>>)),
     Req("dict", "in", NONE, NONE, "u-top", "s-top", TRUE, StringContext)}

RouterRequests ==
    TextRequests \cup IdentityRequests \cup DetailRequests \cup RejectedDetailRequests

\* what get_last_k_turns may return
TurnLists == {<<>>, << <<Turn1, Turn2>> >>}

\* what retrieve_memories may return
MemoryLists ==
    {<<>>, << [role |-> NONE, content |-> "prefers email"] >>,
     << [role |-> NONE, content |-> ""] >>}

KnowledgeUrl == "http://127.0.0.1:9002"
TicketUrl == "http://127.0.0.1:9003"

A2ASendMessage == <<"a2a", "_", "send_message">>

CallKnowledge == CallRecord("dict", A2ASendMessage, "dict", KnowledgeUrl, NONE)

Result(kind, calls, text) == [kind |-> kind, calls |-> calls, text |-> text]

\* results of the decision step under the router specification
RouterResults ==
    {Result("message", <<>>, <<"ok">>),
     Result("message", <<CallKnowledge>>, <<"ok">>),
     Result("tool_calls", <<CallKnowledge>>, <<"ok">>)}

-----------------------------------------------------------------------------
(* Specification of the entry point over RouterRequests *)

Init == InitWith(BOOLEAN)

Next ==
    \/ StartBackgroundAgents({"container"})
    \/ StartAgentInThread({"started"})
    \/ GraceWait
    \/ InitializeA2AProvider
    \/ CreateAgent
    \/ \E p \in SerialSlots :
        \/ Receive(p, RouterRequests)
        \/ Normalize(p)
        \/ ExtractText(p)
        \/ Resolve(p)
        \/ SelectStrategy(p)
        \/ MemoryClientInit(p)
        \/ GetLastKTurns(p, TurnLists)
        \/ RetrieveMemories(p, MemoryLists)
        \/ RenderLtm(p)
        \/ BuildPrompt(p)
        \/ InvokeDecision(p)
        \/ DecisionReturns(p, RouterResults)
        \/ DecisionRaises(p)
        \/ BuildResponse(p)
        \/ Finish(p)
        \/ Deliver(p)

Spec == Init /\ [][Next]_vars

-----------------------------------------------------------------------------
(* Specification of trace reconstruction: one anonymous request, every       *)
(* sequence of up to MaxCalls call records. An anonymous request never       *)
(* reaches the long-term lookup, so its actions are no part of NextTrace.    *)

TraceRequests ==
    {Req("dict", "in", NONE, NONE, NONE, "s-top", FALSE,
         Ctx(NONE, NONE, NONE, FALSE, <<>>))}

CallTicketJson ==
    CallRecord("function", <<"A2A", "_", "send_message">>, "json", NONE, TicketUrl)
CallUnknownUrl ==
    CallRecord("object", <<"a2a", "_", "discover_agent">>, "dict", "http://10.0.0.1:9999", NONE)
CallTargetTool ==
    CallRecord("dict", <<"target", "-", "kb", "___", "search">>, "dict", NONE, NONE)
CallPlainTool ==
    CallRecord("dict", <<"kb", "___", "search">>, "dict", NONE, NONE)
CallBadJson == CallRecord("dict", A2ASendMessage, "badjson", NONE, NONE)
CallBadFunction == CallRecord("badfunction", <<>>, "dict", NONE, NONE)

TraceCalls ==
    {CallKnowledge, CallTicketJson, CallUnknownUrl, CallTargetTool, CallPlainTool,
     CallBadJson, CallBadFunction}

TraceTexts ==
    {<<"ok">>, <<"The", "KnowledgeAgent", "says", "ok">>,
     <<"ticketagent", "and", "KnowledgeAgent">>}

ResultKinds == {"tool_calls", "message_dict", "message_list", "message", "content"}

TraceResults ==
    {Result(kind, calls, text) :
        kind \in ResultKinds, calls \in SeqsUpTo(TraceCalls, MaxCalls), text \in TraceTexts}

InitTrace == InitWith({FALSE})

NextTrace ==
    \/ StartBackgroundAgents({"container"})
    \/ StartAgentInThread({"started"})
    \/ GraceWait
    \/ InitializeA2AProvider
    \/ CreateAgent
    \/ \E p \in SerialSlots :
        \/ Receive(p, TraceRequests)
        \/ Normalize(p)
        \/ ExtractText(p)
        \/ Resolve(p)
        \/ SelectStrategy(p)
        \/ BuildPrompt(p)
        \/ InvokeDecision(p)
        \/ DecisionReturns(p, TraceResults)
        \/ DecisionRaises(p)
        \/ BuildResponse(p)
        \/ Finish(p)
        \/ Deliver(p)

SpecTrace == InitTrace /\ [][NextTrace]_vars

-----------------------------------------------------------------------------
(* Specification of the supervisor's startup: every way the background       *)
(* agents may start or fail, followed by one anonymous request.              *)

\* "import_error": the import of agent_starter raises and is caught
StartupModes == {"local", "container", "disabled", "import_error"}

StartOutcomes == {"started", "failed"}

NextStartup ==
    \/ StartBackgroundAgents(StartupModes)
    \/ StartAgentInThread(StartOutcomes)
    \/ GraceWait
    \/ InitializeA2AProvider
    \/ CreateAgent
    \/ \E p \in SerialSlots :
        \/ Receive(p, TraceRequests)
        \/ Normalize(p)
        \/ ExtractText(p)
        \/ Resolve(p)
        \/ SelectStrategy(p)
        \/ BuildPrompt(p)
        \/ InvokeDecision(p)
        \/ DecisionReturns(p, RouterResults)
        \/ DecisionRaises(p)
        \/ BuildResponse(p)
        \/ Finish(p)
        \/ Deliver(p)

SpecStartup == InitTrace /\ [][NextStartup]_vars

-----------------------------------------------------------------------------
(* Specification of create_vector_bucket over every short bucket name *)

BucketNames == SeqsUpTo(BucketNameChars, MaxNameChars)

NextBucket ==
    \/ CallCreateVectorBucket(BucketNames)
    \/ ValidateBucket
    \/ ClientCreateVectorBucket
    \/ RetryCreateVectorBucket
    \/ FinishCreateVectorBucket

SpecBucket == InitTrace /\ [][NextBucket]_vars

-----------------------------------------------------------------------------
(* Specification of the knowledge base: ingestion and search over one index *)

\* an article as the ingestion handler reads it; title and content are lengths
Article(id, title, content, customer_tier) ==
    [id |-> id, title |-> title, content |-> content, customer_tier |-> customer_tier]

\* an empty customer_tier passes `if article.get('customer_tier')` unchecked and is
\* stored as it is
ValidArticles ==
    {Article(NONE, 5, 9, NONE), Article(NONE, 5, 9, ""),
     Article("k1", 5, 9, "premium"), Article("k1", 5, 9, "enterprise")}

InvalidArticles ==
    {Article("k1", 0, 9, NONE), Article("k1", 5, 50001, "basic"),
     Article("k1", 5, 9, "vip")}

Articles == ValidArticles \cup InvalidArticles

\* a batch one article over the limit of the handler
OversizeBatch == [i \in 1..(MaxBatchArticles + 1) |-> Article("k1", 5, 9, "premium")]

Batches == SeqsUpTo(Articles, MaxBatch) \cup {OversizeBatch}

IngestEvent(shape, action, article, articles) ==
    [shape |-> shape, action |-> action, article |-> article, articles |-> articles]

\* shape "event": the fields are in the event itself; "body": they are the JSON of
\* event['body']; "bad_body": event['body'] is not JSON
IngestEvents ==
    {IngestEvent("event", action, article, <<>>) :
        action \in {NONE, "ingest"}, article \in {<<>>} \cup {<<a>> : a \in Articles}}
    \cup {IngestEvent("event", "batch_ingest", <<>>, articles) : articles \in Batches}
    \cup {IngestEvent(shape, action, <<>>, <<Article("k1", 5, 9, "premium")>>) :
             shape \in {"body", "bad_body"}, action \in {"batch_ingest", "purge"}}

\* an event as the search handler reads it; query is the length of the stripped
\* query
SearchEvent(query, customer_tier, language, max_results) ==
    [query |-> query, customer_tier |-> customer_tier, language |-> language,
     max_results |-> max_results]

SearchEvents ==
    {SearchEvent(3, tier, NONE, max_results) :
        tier \in {NONE, " basic", "Premium", "enterprise", "vip"},
        max_results \in {<<>>, <<1>>}}
    \cup {SearchEvent(0, NONE, NONE, <<>>), SearchEvent(1001, NONE, NONE, <<>>),
          SearchEvent(3, "Premium", "EN", <<>>), SearchEvent(3, "Premium", "es", <<>>),
          SearchEvent(3, NONE, "xx", <<>>), SearchEvent(3, NONE, NONE, <<0>>),
          SearchEvent(3, NONE, NONE, <<51>>)}

NextKnowledge ==
    \/ IngestionHandler(IngestEvents)
    \/ SearchHandler(SearchEvents)

SpecKnowledge == InitTrace /\ [][NextKnowledge]_vars

-----------------------------------------------------------------------------
(* Specification of the ticket operations over one table *)

CreateEvent(status, priority, category) ==
    [status |-> status, priority |-> priority, category |-> category]

\* NONE: the event has no such key
CreateEvents ==
    {CreateEvent(status, NONE, NONE) : status \in {NONE, "resolved", "done"}}
    \cup {CreateEvent(status, "high", "billing") : status \in {NONE, "Open"}}
    \cup {CreateEvent(NONE, "urgent", "other")}

UpdateEvents ==
    [ticket_id : {NONE, "", "T1", "T9"},
     status : {NONE, "", "closed", "in-progress", "Closed", "done"}]

NextTickets ==
    \/ create_ticket(CreateEvents)
    \/ update_ticket_status(UpdateEvents)

SpecTickets == InitTrace /\ [][NextTickets]_vars

-----------------------------------------------------------------------------
(* Properties of the entry point *)

Unset == {NONE, ""}

\* the request is a mapping (or an object converted to one)
IsMappingRequest(req) == req.shape \in {"dict", "attrs", "dictmethod"}

\* none of input, prompt, question holds a non-empty value
LacksText(req) == req.input \in Unset /\ req.prompt \in Unset /\ req.question \in Unset

\* the request passes validation: a mapping with a text and a usable context
WellFormed(req) ==
    IsMappingRequest(req) /\ ~LacksText(req) /\ req.context.kind # "string"

MemoryOps == {"MemoryClient", "get_last_k_turns", "retrieve_memories"}

\* the calls of slot p with one of the given operations
CallsOf(p, ops) == {i \in DOMAIN extcalls[p] : extcalls[p][i].op \in ops}

\* C1: a request mapping in which none of input, prompt, question holds a non-empty
\* value is answered with the missing-field error envelope, whose text names input,
\* prompt and question, and no Memory Store call and no decision-step call is ever
\* made for it.
C1_MissingTextRejected ==
    \A p \in Slots :
        (pc[p] # "idle" /\ IsMappingRequest(request[p]) /\ LacksText(request[p])) =>
            /\ extcalls[p] = <<>>
            /\ pc[p] \in {"entry", "extract", "done"}
            /\ pc[p] = "done" =>
                /\ DOMAIN response[p] = {"error"}
                /\ response[p]["error"] =
                     "No question provided. Request must contain 'input', 'prompt', or 'question' field."

C1_Witness ==
    \E p \in Slots :
        /\ pc[p] = "done"
        /\ IsMappingRequest(request[p]) /\ LacksText(request[p])
        /\ request[p].question = ""
        /\ Has(response[p], "error")

\* the identity the precedence law gives
ExpectedIdentity(req) ==
    IF req.context.user_id \notin Unset THEN req.context.user_id
    ELSE IF req.user_id \notin Unset THEN req.user_id
    ELSE "anonymous"

\* C2: the identity used for every Memory Store lookup and echoed in the response
\* context is context.user_id when set, else the top-level user_id when set, else
\* "anonymous"; it is never empty.
C2_IdentityPrecedence ==
    \A p \in Slots :
        WellFormed(request[p]) =>
            /\ ExpectedIdentity(request[p]) \notin Unset
            /\ \A i \in CallsOf(p, {"get_last_k_turns", "retrieve_memories"}) :
                 extcalls[p][i].actor = ExpectedIdentity(request[p])
            /\ \A i \in CallsOf(p, {"invoke_async"}) :
                 extcalls[p][i].prompt.user_id = ExpectedIdentity(request[p])
            /\ pc[p] = "done" =>
                 /\ Has(response[p], "context")
                 /\ response[p]["context"].user_id = ExpectedIdentity(request[p])

C2_Witness ==
    \E p \in Slots :
        /\ pc[p] = "done"
        /\ request[p].context.user_id = "u-ctx"
        /\ request[p].user_id = "u-top"
        /\ CallsOf(p, {"get_last_k_turns"}) # {}
        /\ response[p]["context"].user_id = "u-ctx"

\* the session key the precedence law gives
ExpectedSession(req) ==
    IF req.session_id \notin Unset THEN req.session_id
    ELSE IF req.context.runtimeSessionId \notin Unset THEN req.context.runtimeSessionId
    ELSE IF req.context.runtime_session_id \notin Unset THEN req.context.runtime_session_id
    ELSE NONE

ResolvedPcs ==
    {"process", "ltm_client", "ltm_turns", "ltm_semantic", "ltm_render", "prompt",
     "invoke", "awaiting", "returned", "finish", "done"}

\* C3: the resolved session key is the top-level session_id if set, else
\* context.runtimeSessionId if set, else context.runtime_session_id if set, else
\* absent; it is the key the Memory Store lookup and the prompt are given.
C3_SessionPrecedence ==
    \A p \in Slots :
        (WellFormed(request[p]) /\ pc[p] \in ResolvedPcs) =>
            /\ frame[p].runtime_session_id = ExpectedSession(request[p])
            /\ \A i \in CallsOf(p, {"get_last_k_turns"}) :
                 extcalls[p][i].session =
                     IF ExpectedSession(request[p]) = NONE
                     THEN ExpectedIdentity(request[p])
                     ELSE ExpectedSession(request[p])
            /\ \A i \in CallsOf(p, {"invoke_async"}) :
                 extcalls[p][i].prompt.session_id = ExpectedSession(request[p])
            /\ (pc[p] = "done" /\ ExpectedSession(request[p]) # NONE) =>
                 response[p]["session_info"].runtime_session_id = ExpectedSession(request[p])

C3_Witness ==
    \E p \in Slots :
        /\ pc[p] = "done"
        /\ request[p].session_id = NONE
        /\ request[p].context.runtimeSessionId = "s-camel"
        /\ request[p].context.runtime_session_id = "s-snake"
        /\ CallsOf(p, {"get_last_k_turns"}) # {}
        /\ response[p]["session_info"].runtime_session_id = "s-camel"

\* the text the alias law gives
ExpectedText(req) ==
    IF req.input \notin Unset THEN req.input
    ELSE IF req.prompt \notin Unset THEN req.prompt
    ELSE req.question

\* C10: the request text handed to the decision step is the first non-empty value
\* among input, prompt, question, in that order.
C10_TextAliasOrder ==
    \A p \in Slots :
        /\ pc[p] \in ResolvedPcs \ {"done"} => frame[p].question = ExpectedText(request[p])
        /\ \A i \in CallsOf(p, {"invoke_async"}) :
             /\ extcalls[p][i].prompt.question = ExpectedText(request[p])
             /\ extcalls[p][i].prompt.question \notin Unset

C10_Witness ==
    \E p \in Slots :
        /\ request[p].input = "" /\ request[p].prompt = "pr" /\ request[p].question = "qu"
        /\ \E i \in CallsOf(p, {"invoke_async"}) : extcalls[p][i].prompt.question = "pr"

NoSessionFields(req) ==
    /\ req.session_id \in Unset
    /\ req.context.runtimeSessionId \in Unset
    /\ req.context.runtime_session_id \in Unset

RoutesTo(call, a) ==
    /\ call.form # "badfunction"
    /\ call.args # "badjson"
    /\ \E i \in DOMAIN call.name :
         call.name[i] \in {"a2a", "A2A", "send_message", "discover_agent"}
    /\ a = AgentUrlToName(IF call.target_agent_url \notin Unset
                          THEN call.target_agent_url ELSE call.url)

\* the call record is the one trace entry `e` stands for
EntryOf(call, e) ==
    IF e.type = "agent" THEN RoutesTo(call, e.name)
    ELSE call.form # "badfunction" /\ call.name = e.tool

\* index of the first call record that trace entry `e` stands for
FirstOccurrence(calls, e) ==
    CHOOSE i \in DOMAIN calls :
        EntryOf(calls[i], e) /\ \A j \in 1..(i - 1) : ~EntryOf(calls[j], e)

AgentNames ==
    {"SentimentAgent", "KnowledgeAgent", "TicketAgent", "ResolutionAgent", "EscalationAgent"}

\* the call records discovered for the request of slot p
CallRecordsOf(p) == DiscoveredToolCalls(work[p].result, agentKeepsLog, conversation)

RoutedTwice(p, a) ==
    Cardinality({i \in DOMAIN CallRecordsOf(p) : RoutesTo(CallRecordsOf(p)[i], a)}) >= 2

\* C5: when the call records of a request hold two or more agent-routing calls that
\* map to the same agent, response_trace holds exactly one agent entry for it, placed
\* among the other entries by its first occurrence, and specialized_agents lists it once.
C5_TraceDedup ==
    \A p \in Slots :
        (pc[p] = "done" /\ Has(response[p], "response_trace")) =>
            \A a \in AgentNames :
                RoutedTwice(p, a) =>
                    LET trace == response[p]["response_trace"]
                        agents == response[p]["specialized_agents"]
                        calls == CallRecordsOf(p)
                        at == {k \in DOMAIN trace : trace[k].type = "agent" /\ trace[k].name = a}
                    IN  /\ Cardinality(at) = 1
                        /\ Cardinality({k \in DOMAIN agents : agents[k] = a}) = 1
                        /\ \A k \in at : \A m \in DOMAIN trace :
                             (m < k) <=> (FirstOccurrence(calls, trace[m])
                                            < FirstOccurrence(calls, trace[k]))

C5_Witness ==
    \E p \in Slots :
        /\ pc[p] = "done"
        /\ Has(response[p], "response_trace")
        /\ CallRecordsOf(p) = <<CallTargetTool, CallKnowledge, CallKnowledge>>
        /\ Len(response[p]["response_trace"]) = 2
        /\ response[p]["response_trace"][2].name = "KnowledgeAgent"

\* a Memory Store call of slot p raised
MemoryCallRaised(p) ==
    \E i \in CallsOf(p, MemoryOps) : extcalls[p][i].outcome = "raised"

\* C6: for a request with known identity and empty turn history, when a Memory Store
\* call (client construction, get_last_k_turns, retrieve_memories) raises, the memory
\* block of the prompt is the no-history notice, the decision step is still invoked,
\* and when it answers the caller gets a response with status "processed", a message
\* and no error field.
C6_MemoryDegradesGracefully ==
    \A p \in Slots :
        MemoryCallRaised(p) =>
            /\ request[p].context.conversation_history = <<>>
            /\ ExpectedIdentity(request[p]) # "anonymous"
            /\ pc[p] \notin {"idle", "entry", "extract", "resolve", "process"}
            /\ pc[p] \in {"invoke", "awaiting", "returned", "finish", "done"} =>
                 work[p].user_info.history_text.label = "NO CONVERSATION HISTORY IN THIS SESSION"
            /\ pc[p] \in {"awaiting", "returned", "finish", "done"} =>
                 /\ CallsOf(p, {"invoke_async"}) # {}
                 /\ \A i \in CallsOf(p, {"invoke_async"}) :
                      extcalls[p][i].prompt.history_text.label =
                          "NO CONVERSATION HISTORY IN THIS SESSION"
            /\ (pc[p] = "done" /\ work[p].result # NoResult) =>
                 /\ Get(response[p], "status") = "processed"
                 /\ Has(response[p], "message")
                 /\ ~Has(response[p], "error")

C6_Witness ==
    \E p \in Slots :
        /\ pc[p] = "done"
        /\ \E i \in CallsOf(p, {"get_last_k_turns"}) : extcalls[p][i].outcome = "raised"
        /\ Get(response[p], "status") = "processed"
        /\ ~Has(response[p], "error")

\* C7: every error envelope returned to the caller has status "error", an error
\* string and the echoed context, and no message field.
C7_ErrorEnvelopeShape ==
    \A p \in Slots :
        (pc[p] = "done" /\ Has(response[p], "error")) =>
            /\ Get(response[p], "status") = "error"
            /\ Has(response[p], "context")
            /\ ~Has(response[p], "message")

\* C8: a request that is no mapping and cannot be converted to one is rejected with
\* the invalid-request error before text extraction, identity resolution or session
\* resolution, and no Memory Store or decision-step call is made for it.
C8_InvalidShapeRejectedFirst ==
    \A p \in Slots :
        (pc[p] # "idle" /\ ~IsMappingRequest(request[p])) =>
            /\ pc[p] \in {"entry", "done"}
            /\ frame[p] = FrameInit
            /\ work[p] = WorkInit
            /\ extcalls[p] = <<>>
            /\ pc[p] = "done" =>
                 /\ DOMAIN response[p] = {"error"}
                 /\ response[p]["error"] = "Invalid request format. Request must be a dictionary."

C8_Witness ==
    \E p \in Slots :
        /\ pc[p] = "done"
        /\ request[p].shape = "bare"
        /\ Has(response[p], "error")

\* the response is a complete success response
CompleteSuccess(resp) ==
    /\ Has(resp, "message")
    /\ Get(resp, "status") = "processed"
    /\ ~Has(resp, "error")

\* the response is a complete error envelope, free of success-only artefacts
CompleteError(resp) ==
    /\ Has(resp, "error")
    /\ ~Has(resp, "message")
    /\ ~Has(resp, "processing_steps")
    /\ ~Has(resp, "specialized_agents")
    /\ ~Has(resp, "response_trace")

\* C9: every value returned by send_message is a complete success response or a
\* complete error envelope: never both message and error, and no error envelope
\* with success-only artefacts such as processing steps marked completed.
C9_NoMixedEnvelope ==
    \A p \in Slots :
        pc[p] = "done" => (CompleteSuccess(response[p]) \/ CompleteError(response[p]))

-----------------------------------------------------------------------------
(* Properties of the memory block *)

\* the caller's turn history, as sent
SentHistory(p) == request[p].context.conversation_history

\* the prompt of slot p has been built
PromptBuilt(p) == pc[p] \in {"invoke", "awaiting", "returned", "finish", "done"}

\* the i-th line of the window of w entries over a history h
WindowLine(h, w, i) ==
    [role |-> Upper(h[Len(h) - w + i].role), content |-> h[Len(h) - w + i].content]

\* block holds exactly the last min(n, 6) entries of h, oldest first
IsHistoryWindow(block, h) ==
    LET w == IF Len(h) < 6 THEN Len(h) ELSE 6
    IN  /\ block.label = "PREVIOUS CONVERSATION (YOU MUST USE THIS FOR MEMORY QUESTIONS)"
        /\ Len(block.lines) = w
        /\ \A i \in 1..w : block.lines[i] = WindowLine(h, w, i)

\* C11: when the caller supplies a non-empty turn history of length n, the memory
\* block of the prompt is the PREVIOUS CONVERSATION block and holds exactly the last
\* min(n, 6) entries, in the caller's order, each as a role-tagged line; this is the
\* block the decision step receives.
C11_HistoryWindow ==
    \A p \in Slots :
        (WellFormed(request[p]) /\ request[p].context.kind = "mapping"
            /\ SentHistory(p) # <<>> /\ PromptBuilt(p)) =>
            /\ IsHistoryWindow(work[p].user_info.history_text, SentHistory(p))
            /\ \A i \in CallsOf(p, {"invoke_async"}) :
                 IsHistoryWindow(extcalls[p][i].prompt.history_text, SentHistory(p))

C11_Witness ==
    \E p \in Slots :
        /\ pc[p] = "done"
        /\ Len(SentHistory(p)) = 7
        /\ CallsOf(p, {"invoke_async"}) # {}
        /\ Len(work[p].user_info.history_text.lines) = 6
        /\ work[p].user_info.history_text.lines[1] = [role |-> "ASSISTANT", content |-> "m2"]
        /\ work[p].user_info.history_text.lines[6] = [role |-> "USER", content |-> "m7"]

\* C12: when the resolved identity is "anonymous", no long-term Memory Store lookup
\* (get_last_k_turns, retrieve_memories, nor the client they need) is made for the
\* request, whatever its turn history and session key are.
C12_AnonymousSkipsLtm ==
    \A p \in Slots :
        (pc[p] # "idle" /\ ExpectedIdentity(request[p]) = "anonymous") =>
            /\ CallsOf(p, MemoryOps) = {}
            /\ pc[p] \notin {"ltm_client", "ltm_turns", "ltm_semantic", "ltm_render"}

C12_Witness ==
    \E p \in Slots :
        /\ pc[p] = "done"
        /\ frame[p].user_id_for_ltm = "anonymous"
        /\ SentHistory(p) = <<>>
        /\ request[p].session_id = "s-top"
        /\ CallsOf(p, {"invoke_async"}) # {}
        /\ CallsOf(p, MemoryOps) = {}
        /\ Get(response[p], "status") = "processed"

\* replay answered without turns and semantic retrieval returned a record with text
SemanticFound(p) ==
    /\ \E i \in CallsOf(p, {"get_last_k_turns"}) : extcalls[p][i].outcome = "ok"
    /\ work[p].recent_turns = <<>>
    /\ \E i \in CallsOf(p, {"retrieve_memories"}) : extcalls[p][i].outcome = "ok"
    /\ NonEmptyText(work[p].memories) # <<>>

\* block is the USER PREFERENCES/FACTS block holding the text of the records
IsSemanticBlock(block, memories) ==
    /\ block.label = "LONG-TERM MEMORY (USER PREFERENCES/FACTS)"
    /\ Len(block.lines) = Len(NonEmptyText(memories))
    /\ \A i \in DOMAIN block.lines :
         block.lines[i].content = NonEmptyText(memories)[i].content

\* C13: for a known identity with empty turn history, when replay returns no turns
\* and semantic retrieval returns at least one record with text, the memory block of
\* the prompt handed to the decision step is the LONG-TERM MEMORY (USER
\* PREFERENCES/FACTS) block with those records' text, not the no-history notice.
C13_SemanticFallback ==
    \A p \in Slots :
        (SemanticFound(p) /\ PromptBuilt(p)) =>
            /\ IsSemanticBlock(work[p].user_info.history_text, work[p].memories)
            /\ \A i \in CallsOf(p, {"invoke_async"}) :
                 IsSemanticBlock(extcalls[p][i].prompt.history_text, work[p].memories)

-----------------------------------------------------------------------------
(* Properties of trace reconstruction *)

\* the entries of a trace that were detected in the response text
DetectedIn(trace) == {k \in DOMAIN trace : trace[k].action = "detected_in_response"}

\* C14: the lexical fallback runs only when no call record was discovered: whenever
\* at least one structured call record was discovered (agent-routing or tool, mapped
\* to a known agent or not), the trace holds no text-detected entry.
C14_FallbackOnlyWithoutCalls ==
    \A p \in Slots :
        (pc[p] = "done" /\ Has(response[p], "response_trace")
            /\ CallRecordsOf(p) # <<>>) =>
            DetectedIn(response[p]["response_trace"]) = {}

\* the name carries an agent-routing signature
RoutingName(name) ==
    \E i \in DOMAIN name : name[i] \in {"a2a", "A2A", "send_message", "discover_agent"}

\* the name has the compound form <target>___<function>
CompoundName(name) == \E i \in 2..(Len(name) - 1) : name[i] = "___"

\* the call record is a tool call by its name
IsToolRecord(call) ==
    call.form # "badfunction" /\ ~RoutingName(call.name) /\ CompoundName(call.name)

\* C15: every discovered call record whose name is no agent-routing signature and
\* has the compound form <target>___<function> yields exactly one tool entry in
\* response_trace and one element of mcp_tools_used for that identifier, whatever
\* the spelling of the target id.
C15_ToolClassification ==
    \A p \in Slots :
        (pc[p] = "done" /\ Has(response[p], "response_trace")) =>
            \A i \in DOMAIN CallRecordsOf(p) :
                IsToolRecord(CallRecordsOf(p)[i]) =>
                    LET id == CallRecordsOf(p)[i].name
                        trace == response[p]["response_trace"]
                        tools == response[p]["mcp_tools_used"]
                    IN  /\ Cardinality({k \in DOMAIN trace :
                                          trace[k].type = "tool" /\ trace[k].tool = id}) = 1
                        /\ Cardinality({k \in DOMAIN tools : tools[k] = id}) = 1

\* the decision step of slot p has returned a result
DecisionAnswered(p) == work[p].result # NoResult

\* C16: trace reconstruction never fails the request: when the decision step has
\* returned, whatever malformed call records its result holds (arguments that are no
\* valid JSON, a function field that is no mapping), the caller receives a status
\* "processed" response and no error envelope, and every well-formed agent-routing
\* record of a known agent is still in the trace.
C16_TraceNeverFails ==
    \A p \in Slots :
        (pc[p] = "done" /\ DecisionAnswered(p)) =>
            /\ Get(response[p], "status") = "processed"
            /\ ~Has(response[p], "error")
            /\ Has(response[p], "response_trace")
            /\ \A a \in AgentNames :
                 (\E i \in DOMAIN CallRecordsOf(p) : RoutesTo(CallRecordsOf(p)[i], a)) =>
                     \E k \in DOMAIN response[p]["response_trace"] :
                         response[p]["response_trace"][k].name = a

-----------------------------------------------------------------------------
(* Properties of the supervisor without agent endpoints *)

\* no Agent Endpoint was reachable: the A2A provider raised or yielded no tools
NoEndpoints == supervisor.a2a \in {"raised", "empty"}

\* C17: when zero Agent Endpoints are reachable, supervisor initialisation goes on
\* to build the agent with an empty tool set (it fails only if the model or Agent
\* constructor itself raises), and every well-formed request served afterwards is
\* handed to the decision step once and, when the decision step answers, gets a
\* status "processed" response with a message and a trace (possibly empty).
C17_ServesWithoutEndpoints ==
    NoEndpoints =>
        /\ supervisor.tools = <<>>
        /\ supervisor.agent = "pending" => supervisor.state = "tools_ready"
        /\ supervisor.agent = "ok" => supervisor.state = "ready"
        /\ \A p \in Slots :
             (WellFormed(request[p]) /\ pc[p] = "done") =>
                 /\ Cardinality(CallsOf(p, {"invoke_async"})) = 1
                 /\ DecisionAnswered(p) =>
                      /\ Get(response[p], "status") = "processed"
                      /\ Has(response[p], "message")
                      /\ Has(response[p], "response_trace")
                      /\ ~Has(response[p], "error")

C17_Witness ==
    \E p \in Slots :
        /\ supervisor.a2a = "raised"
        /\ supervisor.state = "ready"
        /\ pc[p] = "done"
        /\ WellFormed(request[p])
        /\ Get(response[p], "status") = "processed"
        /\ response[p]["response_trace"] = <<>>

-----------------------------------------------------------------------------
(* Properties of the decision step *)

\* the decision step of slot p was invoked and raised
DecisionRaised(p) ==
    /\ pc[p] \in {"finish", "done"}
    /\ CallsOf(p, {"invoke_async"}) # {}
    /\ ~DecisionAnswered(p)

\* C18: the decision step is invoked at most once per request, and if it raises the
\* request ends with an error envelope: status "error", an error string and no
\* message field.
C18_NoRetryOnDecisionFailure ==
    \A p \in Slots :
        /\ Cardinality(CallsOf(p, {"invoke_async"})) <= 1
        /\ DecisionRaised(p) =>
             /\ Get(response[p], "status") = "error"
             /\ Get(response[p], "error") = FailedToProcessError
             /\ ~Has(response[p], "message")

C18_Witness ==
    \E p \in Slots :
        /\ pc[p] = "done"
        /\ DecisionRaised(p)
        /\ Cardinality(CallsOf(p, {"invoke_async"})) = 1
        /\ Get(response[p], "status") = "error"

-----------------------------------------------------------------------------
(* Properties of the response details *)

\* the request asks for details and its context marks the caller authenticated
AsksDetails(req) ==
    req.include_details /\ req.context.kind = "mapping" /\ req.context.authenticated

\* the response carries both detail fields / neither of them
HasDetails(resp) == Has(resp, "processing_steps") /\ Has(resp, "auth_info")
LacksDetails(resp) == ~Has(resp, "processing_steps") /\ ~Has(resp, "auth_info")

\* C19 as stated: every response contains processing_steps and auth_info if and only
\* if the request has include_details true and its context marks the caller
\* authenticated; otherwise neither field is present.
C19_DetailsIff ==
    \A p \in Slots :
        pc[p] = "done" =>
            IF AsksDetails(request[p]) THEN HasDetails(response[p])
            ELSE LacksDetails(response[p])

\* C19 amended: a status "processed" response contains processing_steps and
\* auth_info if and only if the request has include_details true and its context
\* marks the caller authenticated; the response to a request rejected by validation
\* contains neither field.
C19_DetailsIffProcessed ==
    \A p \in Slots :
        pc[p] = "done" =>
            /\ Get(response[p], "status") = "processed" =>
                 IF AsksDetails(request[p]) THEN HasDetails(response[p])
                 ELSE LacksDetails(response[p])
            /\ ~WellFormed(request[p]) => LacksDetails(response[p])

C19_Witness ==
    \E p \in Slots :
        /\ pc[p] = "done"
        /\ Get(response[p], "status") = "processed"
        /\ AsksDetails(request[p])
        /\ Len(response[p]["processing_steps"]) = 6
        /\ response[p]["auth_info"].username = "alice"

-----------------------------------------------------------------------------
(* Properties of the order of the stages *)

\* identity and session of slot p have been resolved
Resolved(p) == frame[p].user_id_for_ltm # NONE

\* a Trace Entry exists for slot p
TraceExists(p) ==
    \/ work[p].trace.response_trace # <<>>
    \/ Has(response[p], "response_trace")

\* C20: within one request the stages are strictly ordered: validation, then identity
\* and session resolution, then all Memory Store calls, then the single decision-step
\* invocation, then trace reconstruction, then response assembly. No Memory Store
\* call follows the decision-step invocation and no Trace Entry exists before the
\* decision step has returned.
C20_StageOrder ==
    \A p \in Slots :
        /\ frame[p] # FrameInit => IsMappingRequest(request[p])
        /\ Resolved(p) => WellFormed(request[p])
        /\ extcalls[p] # <<>> => Resolved(p)
        /\ \A i \in CallsOf(p, MemoryOps) : \A j \in CallsOf(p, {"invoke_async"}) : i < j
        /\ Cardinality(CallsOf(p, {"invoke_async"})) <= 1
        /\ TraceExists(p) =>
             /\ CallsOf(p, {"invoke_async"}) # {}
             /\ DecisionAnswered(p)
             /\ pc[p] \in {"finish", "done"}
        /\ (Resolved(p) /\ response[p] # EmptyDict) => CallsOf(p, {"invoke_async"}) # {}

C20_Witness ==
    \E p \in Slots :
        /\ pc[p] = "done"
        /\ Len(extcalls[p]) = 4
        /\ extcalls[p][1].op = "MemoryClient"
        /\ extcalls[p][2].op = "get_last_k_turns"
        /\ extcalls[p][3].op = "retrieve_memories"
        /\ extcalls[p][4].op = "invoke_async"
        /\ Has(response[p], "response_trace")
        /\ Len(response[p]["response_trace"]) = 1

-----------------------------------------------------------------------------
(* Properties of request isolation *)

\* the calls the decision step made while serving the request of slot p
OwnCalls(p) == work[p].result.calls

\* the trace entry stands for a call made while serving the request of slot p
OwnEntry(p, e) ==
    \/ e.action = "detected_in_response"
    \/ \E i \in DOMAIN OwnCalls(p) : EntryOf(OwnCalls(p)[i], e)

\* C21: requests are isolated from each other: specialized_agents, mcp_tools_used and
\* response_trace of a response hold only delegations made while serving that
\* request, never call records another request left in shared state such as the
\* agent's conversation log.
C21_RequestIsolation ==
    \A p \in Slots :
        (pc[p] = "done" /\ Has(response[p], "response_trace")) =>
            LET trace == response[p]["response_trace"]
                agents == response[p]["specialized_agents"]
                tools == response[p]["mcp_tools_used"]
            IN  /\ \A k \in DOMAIN trace : OwnEntry(p, trace[k])
                /\ \A k \in DOMAIN agents :
                     \E m \in DOMAIN trace : trace[m].type = "agent" /\ trace[m].name = agents[k]
                /\ \A k \in DOMAIN tools :
                     \E i \in DOMAIN OwnCalls(p) : OwnCalls(p)[i].name = tools[k]

-----------------------------------------------------------------------------
(* Properties of the trace as a whole *)

\* (kind, identifying key) of a trace entry
EntryKey(e) == IF e.type = "agent" THEN <<"agent", e.name>> ELSE <<"tool", e.tool>>

\* the entry was found among the call records (stages 1-3), not in the text
Structured(e) == e.action # "detected_in_response"

\* the entries of one kind, in trace order
EntriesOfKind(trace, kind) == SelectSeq(trace, LAMBDA e : e.type = kind)

\* C22: in every processed response, response_trace lists its entries in discovery
\* order (call records in the order found, text-detected entries after them) with no
\* two entries sharing (kind, identifying key); specialized_agents is exactly the
\* names of its agent entries in that order and mcp_tools_used exactly the
\* identifiers of its tool entries in that order, both without duplicates.
C22_TraceOrderAndKeys ==
    \A p \in Slots :
        (pc[p] = "done" /\ Get(response[p], "status") = "processed") =>
            LET trace == response[p]["response_trace"]
                agents == response[p]["specialized_agents"]
                tools == response[p]["mcp_tools_used"]
                calls == CallRecordsOf(p)
                agentEntries == EntriesOfKind(trace, "agent")
                toolEntries == EntriesOfKind(trace, "tool")
            IN  /\ \A k, m \in DOMAIN trace :
                     k # m => EntryKey(trace[k]) # EntryKey(trace[m])
                /\ agents = [k \in DOMAIN agentEntries |-> agentEntries[k].name]
                /\ tools = [k \in DOMAIN toolEntries |-> toolEntries[k].tool]
                /\ \A k, m \in DOMAIN trace :
                     (Structured(trace[k]) /\ Structured(trace[m]) /\ k < m) =>
                         FirstOccurrence(calls, trace[k]) < FirstOccurrence(calls, trace[m])
                /\ \A k, m \in DOMAIN trace :
                     (Structured(trace[k]) /\ ~Structured(trace[m])) => k < m

C22_Witness ==
    \E p \in Slots :
        /\ pc[p] = "done"
        /\ Get(response[p], "status") = "processed"
        /\ Len(response[p]["response_trace"]) = 3
        /\ response[p]["specialized_agents"] = <<"KnowledgeAgent", "TicketAgent">>
        /\ Len(response[p]["mcp_tools_used"]) = 1
        /\ response[p]["response_trace"][2].type = "tool"

-----------------------------------------------------------------------------
(* Properties of the vector bucket manager *)

\* C23: create_vector_bucket retries once after a ThrottlingException and then
\* terminates: one call of create_vector_bucket makes at most two calls of the vector
\* store client and enters itself at most once, also when the store throttles
\* every call.
C23_RetriesOnce ==
    /\ vectorBucket.attempts <= 2
    /\ vectorBucket.depth <= 1

-----------------------------------------------------------------------------
(* Properties of the supervisor's startup *)

\* _initialize_agent has begun, or a request is being served
PastStartup ==
    \/ supervisor.state \in {"tools_ready", "ready", "failed"}
    \/ supervisor.a2a # "pending"
    \/ supervisor.agent # "pending"
    \/ \E p \in Slots : pc[p] # "idle"

\* C24: in container mode every background agent start attempt, and the grace wait
\* that follows when at least one agent started, is complete before the decision-step
\* client is initialised and before any request is served; failing to start some or
\* all agents never fails the supervisor's construction, which then depends on the
\* model and Agent constructors alone.
C24_StartupBarrier ==
    /\ (PastStartup /\ supervisor.mode = "container") =>
         /\ supervisor.attempted = AgentOrder
         /\ supervisor.threads # <<>> => supervisor.grace = "waited"
         /\ supervisor.threads = <<>> => supervisor.grace = "skipped"
    /\ (\E p \in Slots : pc[p] # "idle") => supervisor.state = "ready"
    /\ supervisor.state = "failed" => supervisor.agent = "raised"
    /\ supervisor.agent = "ok" => supervisor.state = "ready"
    /\ supervisor.agent = "pending" => supervisor.state # "failed"

C24_Witness ==
    \E p \in Slots :
        /\ supervisor.mode = "container"
        /\ supervisor.attempted = AgentOrder
        /\ supervisor.threads = <<"knowledge", "escalation">>
        /\ supervisor.grace = "waited"
        /\ supervisor.state = "ready"
        /\ pc[p] = "done"

-----------------------------------------------------------------------------
(* Properties of the choice of the memory strategy *)

LongTermLabels ==
    {"LONG-TERM MEMORY (FROM PREVIOUS SESSIONS)",
     "LONG-TERM MEMORY (USER PREFERENCES/FACTS)",
     "NO CONVERSATION HISTORY IN THIS SESSION"}

\* the session the replay is keyed by: the session key, or the identity without one
ExpectedReplaySession(req) ==
    IF ExpectedSession(req) \notin Unset THEN ExpectedSession(req) ELSE ExpectedIdentity(req)

\* the Memory Store calls of slot p are those of the long-term strategy
LongTermCalls(p) ==
    /\ CallsOf(p, {"MemoryClient"}) = {1}
    /\ extcalls[p][1].outcome = "ok" => CallsOf(p, {"get_last_k_turns"}) = {2}
    /\ \A i \in CallsOf(p, {"get_last_k_turns"}) :
         /\ extcalls[p][i].actor = ExpectedIdentity(request[p])
         /\ extcalls[p][i].session = ExpectedReplaySession(request[p])
         /\ extcalls[p][i].k = 5

\* C25: memory assembly selects exactly one strategy per request, by data
\* availability only: a non-empty turn history gives the PREVIOUS CONVERSATION block
\* and no Memory Store call, also for a known identity; an empty history with a known
\* identity gives the long-term strategy, whose replay asks for 5 turns with the
\* identity as actor and the session key, or the identity when there is none, as
\* session; an empty history with anonymous identity gives the first-message notice.
\* The prompt holds exactly one memory block, and the LTM reminder is present if and
\* only if the identity is not anonymous.
C25_OneMemoryStrategy ==
    \A p \in Slots :
        (WellFormed(request[p]) /\ PromptBuilt(p)) =>
            LET block == work[p].user_info.history_text
                known == ExpectedIdentity(request[p]) # "anonymous"
            IN  /\ block.label # NONE
                /\ SentHistory(p) # <<>> =>
                     /\ IsHistoryWindow(block, SentHistory(p))
                     /\ CallsOf(p, MemoryOps) = {}
                /\ (SentHistory(p) = <<>> /\ known) =>
                     /\ block.label \in LongTermLabels
                     /\ LongTermCalls(p)
                /\ (SentHistory(p) = <<>> /\ ~known) =>
                     /\ block = FirstMessageNotice
                     /\ CallsOf(p, MemoryOps) = {}
                /\ (work[p].user_info.ltm_note # NONE) <=> known
                /\ \A i \in CallsOf(p, {"invoke_async"}) :
                     extcalls[p][i].prompt = work[p].user_info

C25_Witness ==
    \E p \in Slots :
        /\ pc[p] = "done"
        /\ SentHistory(p) = <<>>
        /\ ExpectedIdentity(request[p]) = "u-ctx"
        /\ ExpectedSession(request[p]) = NONE
        /\ \E i \in CallsOf(p, {"get_last_k_turns"}) : extcalls[p][i].session = "u-ctx"
        /\ work[p].user_info.history_text.label = "LONG-TERM MEMORY (FROM PREVIOUS SESSIONS)"
        /\ work[p].user_info.ltm_note = "u-ctx"

-----------------------------------------------------------------------------
(* Properties of the UI projection *)

\* element `c` of conversation_context is the projection of trace entry `e`
ProjectionOf(c, e) ==
    /\ Len(c.tool_calls) = 1
    /\ IF e.type = "agent"
       THEN /\ c.tool_calls[1].name = "a2a_send_message"
            /\ c.tool_calls[1].arguments.agent_name = e.name
       ELSE c.tool_calls[1].name = e.tool

\* C26: context.conversation_context of a processed response has exactly one element
\* per entry of response_trace, in the same order, an agent entry projected to an
\* a2a_send_message call carrying the agent's name and a tool entry to a call
\* carrying the tool identifier; it is empty exactly when response_trace is empty.
C26_UiProjection ==
    \A p \in Slots :
        (pc[p] = "done" /\ Get(response[p], "status") = "processed") =>
            LET trace == response[p]["response_trace"]
                shown == response[p]["context"].conversation_context
            IN  /\ Len(shown) = Len(trace)
                /\ \A k \in DOMAIN trace : ProjectionOf(shown[k], trace[k])
                /\ (shown = <<>>) <=> (trace = <<>>)

C26_Witness ==
    \E p \in Slots :
        /\ pc[p] = "done"
        /\ Get(response[p], "status") = "processed"
        /\ Len(response[p]["response_trace"]) = 3
        /\ response[p]["response_trace"][1].type = "tool"
        /\ Len(response[p]["context"].conversation_context) = 3
        /\ response[p]["context"].conversation_context[3].tool_calls[1].name = "a2a_send_message"

\* C27: for every processed request, memory_info.conversation_length equals the
\* number of entries of the turn history the caller supplied, however many agents or
\* tools were traced.
C27_ConversationLength ==
    \A p \in Slots :
        (pc[p] = "done" /\ Get(response[p], "status") = "processed") =>
            response[p]["memory_info"].conversation_length = Len(SentHistory(p))

-----------------------------------------------------------------------------
(* Properties of the knowledge base handlers *)

\* the search handler answered with status 200
SearchSucceeded ==
    /\ knowledgeBase.handler = "search"
    /\ knowledgeBase.response.statusCode = 200

\* the place of a tier in the order basic < premium < enterprise; an article stored
\* with another tier text has no place above basic
TierRank(tier) ==
    IF tier = "enterprise" THEN 2 ELSE IF tier = "premium" THEN 1 ELSE 0

\* the caller's tier: the event's customer_tier, basic when it gives none
CallerTier == StripLower(Default(knowledgeBase.event.customer_tier, "basic"))

\* C28: knowledge search tier isolation. In every successful search response every
\* returned result has a customer tier no higher than the caller's tier in the order
\* basic < premium < enterprise, and total_found is the number of results returned
\* after that filtering.
C28_TierIsolation ==
    SearchSucceeded =>
        LET resp == knowledgeBase.response
        IN  /\ \A i \in 1..Len(resp.results) :
                   TierRank(resp.results[i].customer_tier) <= TierRank(CallerTier)
            /\ resp.total_found = Len(resp.results)

\* a premium caller is answered from an index that also holds an enterprise
\* article, and gets the one article of its reach
C28_Witness ==
    /\ SearchSucceeded
    /\ CallerTier = "premium"
    /\ knowledgeBase.event.max_results = <<>>
    /\ \E k \in DOMAIN knowledgeBase.vectors :
           knowledgeBase.vectors[k].customer_tier = "enterprise"
    /\ Cardinality(DOMAIN knowledgeBase.vectors) = 2
    /\ Len(knowledgeBase.response.results) = 1
    /\ knowledgeBase.response.total_found = 1

\* the ingestion handler was called with a batch_ingest request it could parse
BatchIngest(kb) ==
    /\ kb.handler = "ingestion"
    /\ kb.event.shape # "bad_body"
    /\ kb.event.action = "batch_ingest"

\* the batch is empty, over the limit, or holds an article that fails validation
BadBatch(articles) ==
    \/ articles = <<>>
    \/ Len(articles) > 100
    \/ \E i \in 1..Len(articles) : articles[i] \in InvalidArticles

\* a batch that reached ingestion was fully valid and is fully accounted for
BatchAccounted(kb) ==
    (BatchIngest(kb) /\ kb.response.statusCode = 200) =>
        /\ ~BadBatch(kb.event.articles)
        /\ kb.response.total_articles = Len(kb.event.articles)
        /\ kb.response.successful + kb.response.failed = kb.response.total_articles

\* a step of the handler on a bad batch leaves the index as it was
BadBatchWritesNothing ==
    (BatchIngest(knowledgeBase') /\ BadBatch(knowledgeBase'.event.articles)) =>
        knowledgeBase'.vectors = knowledgeBase.vectors

-----------------------------------------------------------------------------
(* Properties of the ticket operations *)

TicketStatuses == {"open", "in-progress", "resolved", "closed", "escalated", "cancelled"}

\* the value create stores for a field of the event: the event's value when it is
\* one of `allowed`, else `fallback`
Stored(value, allowed, fallback) ==
    IF value # NONE /\ value \in allowed THEN value ELSE fallback

\* create answered with 200: the ticket it names is stored with the event's status,
\* priority and category, each replaced by its default when invalid
CreateNormalises(t) ==
    (t.operation = "create" /\ t.response.statusCode = 200) =>
        LET id == t.response.ticket_id
        IN  /\ id \in DOMAIN t.table
            /\ t.table[id].status = Stored(t.event.status, TicketStatuses, "open")
            /\ t.table[id].priority =
                   Stored(t.event.priority, {"critical", "high", "medium", "low"},
                          "medium")
            /\ t.table[id].category =
                   Stored(t.event.category,
                          {"account", "billing", "technical", "how-to", "general"},
                          "general")

\* update_status was called without a ticket id, without a status or with a status
\* outside the six
BadUpdate(t) ==
    /\ t.operation = "update_status"
    /\ \/ t.event.ticket_id \in {NONE, ""}
       \/ t.event.status \in {NONE, ""}
       \/ t.event.status \notin TicketStatuses

\* a bad update_status leaves the table as it was
BadUpdateWritesNothing ==
    BadUpdate(tickets') => tickets'.table = tickets.table

\* C30: after any sequence of create and update_status operations every stored
\* ticket's status is one of open, in-progress, resolved, closed, escalated,
\* cancelled: create replaces an invalid status by open (an invalid priority by
\* medium, an invalid category by general), and update_status with a missing ticket
\* id, a missing status or an invalid status returns 400 and leaves the table
\* unchanged.
C30_TicketStatusValid ==
    /\ [](/\ \A id \in DOMAIN tickets.table :
                 tickets.table[id].status \in TicketStatuses
          /\ CreateNormalises(tickets)
          /\ BadUpdate(tickets) => tickets.response.statusCode = 400)
    /\ [][BadUpdateWritesNothing]_vars

\* a ticket created with an invalid status was closed by update_status, and a
\* later update_status with an invalid status was answered with 400
C30_Witness ==
    /\ BadUpdate(tickets)
    /\ tickets.event.ticket_id = "T1"
    /\ tickets.event.status = "Closed"
    /\ tickets.response.statusCode = 400
    /\ "T1" \in DOMAIN tickets.table
    /\ tickets.table["T1"].status = "closed"
    /\ tickets.table["T1"].priority = "high"

====
